---- MODULE Spec2Model ----
(***************************************************************************)
(* A model of the result-normalisation and error-taxonomy layer of         *)
(* skypilot-mcp (src/skypilot_mcp/helpers.py) and of the tools built on    *)
(* it: the Request Resolver (resolve_request), the Error Translator        *)
(* (handle_skypilot_error) and the skypilot_get_request tool.              *)
(***************************************************************************)
EXTENDS Integers, Sequences, FiniteSets, TLC

\* ------------------------------------------------------------------------
\* Bounds of the model
\* ------------------------------------------------------------------------

\* Number of protocol worker threads; each issues one call, at any time.
NCalls == 2

\* Seconds by which one Tick lets the clocks advance (never past a deadline).
TickSeconds == 580

\* Clocks stop advancing once a call has been running this long.
Horizon == 600

\* The timeout argument, in seconds, of the direct resolve_request calls.
ShortTimeout == 0

\* Largest number of listed kinds one raised failure derives from.
MaxBases == 2

\* Number of tool threads of the protocol server that run the log tools.
NTools == 2

\* Largest number of lines one SDK call writes to the process streams, and
\* largest number of lines one StringIO receives.
MaxWrites == 1

\* The log tools are called with every tail from 0 to MaxTail (and with the
\* tails of the tests).
MaxTail == 2

\* Largest number of elements of the sets given to the serializer.
MaxSetSize == 3

\* Largest number of natures (str and Enum, dataclass and Enum, ...) of one
\* object given to the serializer.
MaxNatures == 2

\* Largest length of the bytes given to the serializer.
MaxBytes == 3

\* Largest number of request ids the SDK issues while the server runs.
MaxRequests == 2

\* ------------------------------------------------------------------------
\* Program constants
\* ------------------------------------------------------------------------

DEFAULT_RESOLVE_TIMEOUT == 580

\* timeout=600 of the skypilot_get_request tool registration.
TOOL_TIMEOUT == 600

Calls == 1 .. NCalls
\* One ThreadPoolExecutor object can be constructed per call.
ExecIds == 1 .. NCalls

\* The request id (operation handle) protocol thread c waits on.
HandleOf(c) == "req-00" \o ToString(c)

Handles == {HandleOf(c) : c \in Calls}

\* The timeouts of the calls: the explicit one of the direct calls and the
\* default.
Timeouts == {ShortTimeout, DEFAULT_RESOLVE_TIMEOUT}

\* ------------------------------------------------------------------------
\* Python values returned by sky.get
\* ------------------------------------------------------------------------

PyNone == [t |-> "None"]
PyStr(s) == [t |-> "str", s |-> s]
PyInt(n) == [t |-> "int", n |-> n]
PyList(xs) == [t |-> "list", xs |-> xs]
\* A dict: its keys and its values, in the order of insertion.
PyDict(ks, vs) == [t |-> "dict", ks |-> ks, vs |-> vs]

PyBool(b) == [t |-> "bool", b |-> b]
\* A float, by its repr.
PyFloat(f) == [t |-> "float", f |-> f]
PyTuple(xs) == [t |-> "tuple", xs |-> xs]
\* A set or a frozenset: its elements, in the order iteration yields them
\* (the order of its hash table).
PySet(xs) == [t |-> "set", xs |-> xs]
PyFrozenset(xs) == [t |-> "frozenset", xs |-> xs]
\* A member of an enum.Enum class: class name, member name and value.
PyEnum(cls, name, value) == [t |-> "enum", cls |-> cls, name |-> name, value |-> value]
\* An object with a model_dump method (Pydantic v2), by the dict it returns.
PyModel(dump) == [t |-> "model_dump", dump |-> dump]
\* An object with a dict method and __fields__ (Pydantic v1), by the dict
\* it returns.
PyLegacy(dump) == [t |-> "dict_fields", dump |-> dump]
\* A dataclass instance: the names of its fields and their values.
PyDataclass(names, vals) == [t |-> "dataclass", names |-> names, vals |-> vals]
\* bytes, as the sequence of the byte values.
PyBytes(bs) == [t |-> "bytes", bs |-> bs]
\* A pathlib.PurePath, by its str().
PyPath(path) == [t |-> "path", path |-> path]
\* An object of any other class (a datetime), by its str().
PyObject(str) == [t |-> "object", str |-> str]
\* An object whose class has several of these natures (a str that is an
\* Enum member, a dataclass that is an Enum member, a model with both
\* model_dump and dict/__fields__): the object as each of them.
PyMulti(views) == [t |-> "multi", views |-> views]

\* The object as an instance of each of its natures.
Views(obj) == IF obj.t = "multi" THEN obj.views ELSE <<obj>>

\* The natures of an object.
Natures(obj) == {Views(obj)[i].t : i \in 1 .. Len(Views(obj))}

\* The object as its nature among tags.
ViewAs(obj, tags) ==
  Views(obj)[CHOOSE i \in 1 .. Len(Views(obj)) : Views(obj)[i].t \in tags]

PrimitiveTags == {"None", "str", "int", "float", "bool"}

\* str() of an object.
RECURSIVE Str(_)
Str(v) ==
  CASE v.t = "None" -> "None"
    [] v.t = "int" -> ToString(v.n)
    [] v.t = "str" -> v.s
    [] v.t = "bool" -> IF v.b THEN "True" ELSE "False"
    [] v.t = "float" -> v.f
    [] v.t = "path" -> v.path
    [] v.t = "object" -> v.str
    [] v.t = "enum" -> v.cls \o "." \o v.name
    [] v.t = "multi" -> Str(Views(v)[1])

\* The results the mocked sky.get returns in the tests: None, and
\* [{"name": "cluster-1"}].
Values == {PyNone, PyList(<<PyDict(<<PyStr("name")>>, <<PyStr("cluster-1")>>)>>)}

\* ------------------------------------------------------------------------
\* Failures (Python exceptions) and outcomes of a call
\* ------------------------------------------------------------------------

\* The kinds named by the except clauses of handle_skypilot_error.wrapper,
\* in the order of the clauses, each with the prefix (and suffix) of the
\* ToolError message its clause builds.  Row 1 is the pass-through clause
\* "except ToolError: raise" and the last row is "except Exception".
HandlerTable ==
  << [kind |-> "ToolError", prefix |-> "", suffix |-> ""],
     [kind |-> "ApiServerAuthenticationError",
      prefix |-> "Authentication required: ",
      suffix |-> ". Use skypilot_api_login to authenticate."],
     [kind |-> "PermissionDeniedError", prefix |-> "Permission denied: ", suffix |-> ""],
     [kind |-> "UserRequestRejectedByPolicy",
      prefix |-> "Request rejected by admin policy: ", suffix |-> ""],
     [kind |-> "ApiServerConnectionError", prefix |-> "API server unreachable: ", suffix |-> ""],
     [kind |-> "ServerTemporarilyUnavailableError",
      prefix |-> "API server temporarily unavailable (retry later): ", suffix |-> ""],
     [kind |-> "APIVersionMismatchError", prefix |-> "API version mismatch: ", suffix |-> ""],
     [kind |-> "APINotSupportedError", prefix |-> "API not supported by server: ", suffix |-> ""],
     [kind |-> "ClusterDoesNotExist", prefix |-> "Cluster not found: ", suffix |-> ""],
     [kind |-> "ClusterNotUpError", prefix |-> "Cluster not up: ", suffix |-> ""],
     [kind |-> "ClusterSetUpError", prefix |-> "Cluster setup failed: ", suffix |-> ""],
     [kind |-> "InvalidClusterNameError", prefix |-> "Invalid cluster name: ", suffix |-> ""],
     [kind |-> "ResourcesUnavailableError", prefix |-> "Resources unavailable: ", suffix |-> ""],
     [kind |-> "CloudError", prefix |-> "Cloud provider error: ", suffix |-> ""],
     [kind |-> "InvalidCloudConfigs", prefix |-> "Invalid cloud configuration: ", suffix |-> ""],
     [kind |-> "InvalidCloudCredentials", prefix |-> "Invalid cloud credentials: ", suffix |-> ""],
     [kind |-> "NoCloudAccessError", prefix |-> "No cloud access: ", suffix |-> ""],
     [kind |-> "NetworkError", prefix |-> "Network error: ", suffix |-> ""],
     [kind |-> "StorageError", prefix |-> "Storage error: ", suffix |-> ""],
     [kind |-> "VolumeNotFoundError", prefix |-> "Volume not found: ", suffix |-> ""],
     [kind |-> "VolumeNotReadyError", prefix |-> "Volume not ready: ", suffix |-> ""],
     [kind |-> "PortDoesNotExistError", prefix |-> "Port not found: ", suffix |-> ""],
     [kind |-> "CommandError", prefix |-> "Command error: ", suffix |-> ""],
     [kind |-> "NotSupportedError", prefix |-> "Not supported: ", suffix |-> ""],
     [kind |-> "RequestCancelled", prefix |-> "Request cancelled: ", suffix |-> ""],
     [kind |-> "ValueError", prefix |-> "Invalid input: ", suffix |-> ""],
     [kind |-> "TimeoutError", prefix |-> "Timeout: ", suffix |-> ""],
     [kind |-> "Exception", prefix |-> "", suffix |-> ""] >>

\* A failure is an exception object: the name of its class, the kinds it is
\* an instance of (its class and the bases of its class), and str(e).
Failure(cls, bases, msg) == [cls |-> cls, bases |-> bases, msg |-> msg]

IsInstance(f, kind) == kind \in f.bases

\* fastmcp.exceptions.ToolError(msg); ToolError derives from Exception.
ToolError(msg) == Failure("ToolError", {"ToolError", "Exception"}, msg)

\* concurrent.futures.TimeoutError, the kind resolve_request catches.  Since
\* Python 3.11 it is the builtin TimeoutError itself.
FuturesTimeoutError == "concurrent.futures.TimeoutError"

\* The builtin TimeoutError(msg), as raised by resolve_request.
TimeoutError(msg) ==
  Failure("TimeoutError", {"TimeoutError", FuturesTimeoutError, "Exception"}, msg)

\* How a call ends: it returns a value or raises a failure.
NoOutcome == [kind |-> "none"]
Return(v) == [kind |-> "return", value |-> v]
Raise(f) == [kind |-> "raise", exc |-> f]

Min(S) == CHOOSE x \in S : \A y \in S : x <= y

\* ------------------------------------------------------------------------
\* Serializer
\* ------------------------------------------------------------------------

\* The printable ASCII characters in code point order: 32 to 95, and 97
\* to 126 (a string of this language cannot hold the grave accent, 96).
AsciiLow ==
  " !\"#$%&'()*+,-./0123456789:;<=>?@ABCDEFGHIJKLMNOPQRSTUVWXYZ[\\]^_"
AsciiHigh == "abcdefghijklmnopqrstuvwxyz{|}~"

\* The character with code point b, and the code point of a character.
Chr(b) ==
  IF b <= Len(AsciiLow) + 31
  THEN SubSeq(AsciiLow, b - 31, b - 31)
  ELSE SubSeq(AsciiHigh, b - Len(AsciiLow) - 32, b - Len(AsciiLow) - 32)

Ord(c) == CHOOSE b \in 32 .. 126 : b # Len(AsciiLow) + 32 /\ Chr(b) = c

\* a < b on two str: by code points, a proper prefix first.
RECURSIVE StrLess(_, _)
StrLess(a, b) ==
  IF Len(b) = 0 THEN FALSE
  ELSE IF Len(a) = 0 THEN TRUE
  ELSE IF SubSeq(a, 1, 1) = SubSeq(b, 1, 1)
       THEN StrLess(SubSeq(a, 2, Len(a)), SubSeq(b, 2, Len(b)))
       ELSE Ord(SubSeq(a, 1, 1)) < Ord(SubSeq(b, 1, 1))

\* Whether a < b is defined between two set elements: between numbers and
\* between strings; every other pairing here (None, a number with a
\* string) raises TypeError.
Orderable(a, b) ==
  \/ a.t \in {"int", "bool"} /\ b.t \in {"int", "bool"}
  \/ a.t = "str" /\ b.t = "str"

Number(a) == IF a.t = "bool" THEN (IF a.b THEN 1 ELSE 0) ELSE a.n

\* a < b where it is defined.
Less(a, b) ==
  IF a.t = "str" THEN StrLess(a.s, b.s) ELSE Number(a) < Number(b)

\* The variant of sorted in which nothing is reordered.
sorted_as_iterated(xs) ==
  [ok |-> \A i, j \in 1 .. Len(xs) : i # j => Orderable(xs[i], xs[j]), xs |-> xs]

\* sorted(obj) on the elements of a set in iteration order: the ascending
\* list, or TypeError (ok = FALSE) when a comparison is undefined.  Every
\* sort of two or more elements of which some pair is incomparable makes
\* such a comparison.
sorted(xs) ==
  [ok |-> \A i, j \in 1 .. Len(xs) : i # j => Orderable(xs[i], xs[j]),
   xs |-> IF \A i, j \in 1 .. Len(xs) : i # j => Orderable(xs[i], xs[j])
          THEN SortSeq(xs, Less) ELSE xs]

\* Whether the bytes are well-formed UTF-8 (the table of the Unicode
\* standard: lead byte, range of the second byte, continuation bytes).
Continuation(b) == b >= 128 /\ b <= 191

RECURSIVE Utf8Valid(_)
Utf8Valid(bs) ==
  IF Len(bs) = 0 THEN TRUE
  ELSE LET b == bs[1]
           n == Len(bs)
           rest(k) == SubSeq(bs, k + 1, n)
       IN  IF b < 128 THEN Utf8Valid(rest(1))
           ELSE IF b >= 194 /\ b <= 223
           THEN n >= 2 /\ Continuation(bs[2]) /\ Utf8Valid(rest(2))
           ELSE IF b >= 224 /\ b <= 239
           THEN /\ n >= 3
                /\ Continuation(bs[2])
                /\ (b = 224 => bs[2] >= 160)
                /\ (b = 237 => bs[2] <= 159)
                /\ Continuation(bs[3])
                /\ Utf8Valid(rest(3))
           ELSE IF b >= 240 /\ b <= 244
           THEN /\ n >= 4
                /\ Continuation(bs[2])
                /\ (b = 240 => bs[2] >= 144)
                /\ (b = 244 => bs[2] <= 143)
                /\ Continuation(bs[3])
                /\ Continuation(bs[4])
                /\ Utf8Valid(rest(4))
           ELSE FALSE

\* obj.decode("utf-8") of well-formed bytes that are all printable ASCII.
RECURSIVE decode(_)
decode(bs) ==
  IF Len(bs) = 0 THEN "" ELSE Chr(bs[1]) \o decode(SubSeq(bs, 2, Len(bs)))

Base64Alphabet ==
  "ABCDEFGHIJKLMNOPQRSTUVWXYZabcdefghijklmnopqrstuvwxyz0123456789+/"

\* The variant of the alphabet of base64.urlsafe_b64encode.
SextetUrlSafe(n) ==
  SubSeq("ABCDEFGHIJKLMNOPQRSTUVWXYZabcdefghijklmnopqrstuvwxyz0123456789-_",
         n + 1, n + 1)

Sextet(n) == SubSeq(Base64Alphabet, n + 1, n + 1)

\* base64.b64encode(obj).decode("ascii"): each group of three bytes as four
\* characters, the last group padded with "=".
RECURSIVE b64encode(_)
b64encode(bs) ==
  IF Len(bs) = 0 THEN ""
  ELSE LET n == IF Len(bs) < 3 THEN Len(bs) ELSE 3
           w == bs[1] * 65536
                + (IF n >= 2 THEN bs[2] * 256 ELSE 0)
                + (IF n >= 3 THEN bs[3] ELSE 0)
       IN  Sextet(w \div 262144)
           \o Sextet((w \div 4096) % 64)
           \o (IF n >= 2 THEN Sextet((w \div 64) % 64) ELSE "=")
           \o (IF n >= 3 THEN Sextet(w % 64) ELSE "=")
           \o b64encode(SubSeq(bs, n + 1, Len(bs)))

\* Whether json.dumps(obj) succeeds without a default: for the types its
\* encoder knows.
RECURSIVE JsonEncodable(_)
JsonEncodable(obj) ==
  \/ Natures(obj) \cap PrimitiveTags # {}
  \/ /\ obj.t \in {"list", "tuple"}
     /\ \A i \in 1 .. Len(obj.xs) : JsonEncodable(obj.xs[i])
  \/ /\ obj.t = "dict"
     /\ \A i \in 1 .. Len(obj.ks) : obj.ks[i].t \in PrimitiveTags
     /\ \A i \in 1 .. Len(obj.vs) : JsonEncodable(obj.vs[i])

\* d[k] = v on a dict: the value of a key already present is replaced in
\* place, a new key is appended.
SetItem(d, k, v) ==
  IF \E i \in 1 .. Len(d.ks) : d.ks[i] = k
  THEN PyDict(d.ks, [d.vs EXCEPT ![CHOOSE i \in 1 .. Len(d.ks) : d.ks[i] = k] = v])
  ELSE PyDict(Append(d.ks, k), Append(d.vs, v))

\* The variant of the order of the tests in which the Enum test comes
\* before the dataclass test.
SerializerRulesEnumFirst ==
  << "primitive", "model_dump", "dict_fields", "enum", "dataclass", "set",
     "dict", "list", "bytes", "path", "fallback" >>

\* The tests of _make_serializable, in the order of its if statements.
SerializerRules ==
  << "primitive", "model_dump", "dict_fields", "dataclass", "enum", "set",
     "dict", "list", "bytes", "path", "fallback" >>

\* The condition of each if statement.
Satisfies(obj, rule) ==
  CASE rule = "primitive" -> Natures(obj) \cap PrimitiveTags # {}
    [] rule = "set" -> Natures(obj) \cap {"set", "frozenset"} # {}
    [] rule = "list" -> Natures(obj) \cap {"list", "tuple"} # {}
    [] rule = "fallback" -> TRUE
    [] OTHER -> rule \in Natures(obj)

\* The body of each if statement.  DictComprehension builds the dict of
\* the first n items of a dict.
RECURSIVE _make_serializable(_), ApplyRule(_, _), DictComprehension(_, _)
DictComprehension(obj, n) ==
  IF n = 0 THEN PyDict(<< >>, << >>)
  ELSE SetItem(DictComprehension(obj, n - 1),
               PyStr(Str(obj.ks[n])), _make_serializable(obj.vs[n]))

ApplyRule(rule, obj) ==
  CASE rule = "primitive" -> obj
    [] rule = "model_dump" ->
         _make_serializable(ViewAs(obj, {"model_dump"}).dump)
    [] rule = "dict_fields" ->
         _make_serializable(ViewAs(obj, {"dict_fields"}).dump)
    [] rule = "dataclass" ->
         LET dc == ViewAs(obj, {"dataclass"})
         IN  PyDict([i \in 1 .. Len(dc.names) |-> PyStr(dc.names[i])],
                    [i \in 1 .. Len(dc.vals) |-> _make_serializable(dc.vals[i])])
    [] rule = "enum" -> ViewAs(obj, {"enum"}).value
    [] rule = "set" ->
         LET items == sorted(ViewAs(obj, {"set", "frozenset"}).xs).xs
         IN  PyList([i \in 1 .. Len(items) |-> _make_serializable(items[i])])
    [] rule = "dict" ->
         DictComprehension(ViewAs(obj, {"dict"}),
                           Len(ViewAs(obj, {"dict"}).ks))
    [] rule = "list" ->
         LET items == ViewAs(obj, {"list", "tuple"}).xs
         IN  PyList([i \in 1 .. Len(items) |-> _make_serializable(items[i])])
    [] rule = "bytes" ->
         LET bs == ViewAs(obj, {"bytes"}).bs
         IN  IF Utf8Valid(bs) THEN PyStr(decode(bs)) ELSE PyStr(b64encode(bs))
    [] rule = "path" -> PyStr(Str(ViewAs(obj, {"path"})))
    [] rule = "fallback" ->
         IF JsonEncodable(obj) THEN obj ELSE PyStr(Str(obj))

\* The first if statement whose condition holds decides.
_make_serializable(obj) ==
  ApplyRule(SerializerRules[Min({i \in 1 .. Len(SerializerRules) :
                                   Satisfies(obj, SerializerRules[i])})], obj)

RECURSIVE Spaces(_)
Spaces(n) == IF n = 0 THEN "" ELSE " " \o Spaces(n - 1)

\* The key of a dict as json.dumps writes it.
JsonKey(k) ==
  CASE k.t = "str" -> k.s
    [] k.t = "int" -> ToString(k.n)
    [] k.t = "bool" -> IF k.b THEN "true" ELSE "false"
    [] k.t = "None" -> "null"

\* json.dumps(v, indent=2, default=str) at nesting depth d.  ListItems and
\* DictItems render the first n members, one per line.
RECURSIVE JsonDumps(_, _), ListItems(_, _, _), DictItems(_, _, _)
ListItems(v, n, d) ==
  IF n = 0 THEN ""
  ELSE ListItems(v, n - 1, d) \o (IF n = 1 THEN "" ELSE ",") \o "\n"
       \o Spaces(2 * (d + 1)) \o JsonDumps(v.xs[n], d + 1)

DictItems(v, n, d) ==
  IF n = 0 THEN ""
  ELSE DictItems(v, n - 1, d) \o (IF n = 1 THEN "" ELSE ",") \o "\n"
       \o Spaces(2 * (d + 1)) \o "\"" \o JsonKey(v.ks[n]) \o "\": "
       \o JsonDumps(v.vs[n], d + 1)

JsonDumps(v, d) ==
  CASE v.t = "None" -> "null"
    [] v.t = "int" -> ToString(v.n)
    [] v.t = "bool" -> IF v.b THEN "true" ELSE "false"
    [] v.t = "float" -> v.f
    [] v.t = "str" -> "\"" \o v.s \o "\""
    [] v.t \in {"list", "tuple"} ->
         IF Len(v.xs) = 0 THEN "[]"
         ELSE "[" \o ListItems(v, Len(v.xs), d) \o "\n" \o Spaces(2 * d) \o "]"
    [] v.t = "dict" ->
         IF Len(v.ks) = 0 THEN "{}"
         ELSE "{" \o DictItems(v, Len(v.ks), d) \o "\n" \o Spaces(2 * d) \o "}"
    [] v.t = "multi" /\ Natures(v) \cap PrimitiveTags # {} ->
         JsonDumps(ViewAs(v, PrimitiveTags), d)
    [] OTHER -> "\"" \o Str(v) \o "\""

safe_json_serialize(obj) == JsonDumps(_make_serializable(obj), 0)

\* ------------------------------------------------------------------------
\* Error Translator
\* ------------------------------------------------------------------------

\* The matching clauses of a wrapper without "except TimeoutError".
MatchingClausesNoTimeout(f) ==
  {i \in 1 .. Len(HandlerTable) :
     IsInstance(f, HandlerTable[i].kind) /\ HandlerTable[i].kind # "TimeoutError"}

\* The matching clauses of a wrapper without the final "except Exception".
MatchingClausesNoCatchAll(f) ==
  {i \in 1 .. Len(HandlerTable) - 1 : IsInstance(f, HandlerTable[i].kind)}

\* The matching clauses of a wrapper whose "except ValueError" comes first
\* after "except ToolError": a ValueError never reaches the later clauses.
MatchingClausesValueErrorFirst(f) ==
  {i \in 1 .. Len(HandlerTable) :
     /\ IsInstance(f, HandlerTable[i].kind)
     /\ (IsInstance(f, "ValueError") => HandlerTable[i].kind \in {"ToolError", "ValueError"})}

\* The except clauses of wrapper that match failure f, by position.
MatchingClauses(f) ==
  {i \in 1 .. Len(HandlerTable) : IsInstance(f, HandlerTable[i].kind)}

\* Clauses that all build the message of the final clause, the name of the
\* raised class before the message.
ClauseMessageTypeName(i, f) == f.cls \o ": " \o f.msg

\* The message the clause at position i builds for failure f.
ClauseMessage(i, f) ==
  IF i = Len(HandlerTable)
  THEN f.cls \o ": " \o f.msg
  ELSE HandlerTable[i].prefix \o f.msg \o HandlerTable[i].suffix

\* A wrapper without "except ToolError: raise": a ToolError is translated
\* like any other failure.
handle_skypilot_error_NoPassThrough(out) ==
  IF out.kind # "raise" THEN out
  ELSE IF MatchingClauses(out.exc) \ {1} = {} THEN out
  ELSE Raise(ToolError(ClauseMessage(Min(MatchingClauses(out.exc) \ {1}), out.exc)))

\* wrapper: the outcome of the decorated callable, given the outcome of the
\* callable it wraps.  Python runs the first except clause that matches; a
\* failure no clause matches leaves the try statement as it is.
handle_skypilot_error(out) ==
  IF out.kind # "raise" THEN out
  ELSE IF MatchingClauses(out.exc) = {} THEN out
  ELSE LET i == Min(MatchingClauses(out.exc))
       IN IF i = 1 THEN out
          ELSE Raise(ToolError(ClauseMessage(i, out.exc)))

\* ------------------------------------------------------------------------
\* Request Resolver: state
\* ------------------------------------------------------------------------

VARIABLES
  pc,        \* per call: "idle", "result" (in future.result), "exit" (in the
             \* with statement's __exit__), "done" (returned or raised)
  api,       \* per call: the function called
  handle,    \* per call: request_id
  timeout,   \* per call: the timeout argument, in seconds
  elapsed,   \* per call: seconds since the call began (0 when not in a call)
  pool,      \* per call: the executor its with statement holds (0: none)
  fut,       \* per call: state of its Future
  futOut,    \* per call: result or exception future.result() finds on its Future
  waitEnd,   \* per call: how future.result ended ("finished" or "timeout")
  cancelTry, \* per call: whether future.cancel() was called
  pending,   \* per call: what the with body returned or raised
  outcome,   \* per call: what resolve_request returned or raised
  surfaced,  \* per call: what the protocol client received
  exec,      \* per executor: "new", "open" or "shutdown"
  worker,    \* per executor: its worker thread, "none", "idle", "busy", "exited"
  queue,     \* per executor: the calls whose work items are queued
  running,   \* per executor: the call whose work item the worker runs (0: none)
  submits,   \* per executor: number of work items ever submitted to it
  created,   \* number of executors constructed so far
  thrown,    \* Error Translator: outcome of the wrapped callable
  once,      \* Error Translator: outcome of the callable wrapped once
  twice      \* Error Translator: outcome of the callable wrapped twice

resolverVars ==
  << pc, api, handle, timeout, elapsed, pool, fut, futOut, waitEnd, cancelTry,
     pending, outcome, surfaced, exec, worker, queue, running, submits, created >>

translatorVars == << thrown, once, twice >>

VARIABLES
  cpc,        \* per tool thread: where it is in its tool call ("idle": in
              \* none, "lock", "out", "err", "sdk", "xerr", "xout",
              \* "unlock", "run", "done")
  tool,       \* per tool thread: the tool it runs
  _STDOUT_REDIRECT_LOCK,  \* the thread holding the lock (0: free)
  sys_stdout, \* target of sys.stdout: 0 the process stream, t the buf of t
  sys_stderr, \* target of sys.stderr, likewise
  old_out,    \* per thread: _old_targets of its redirect_stdout object
  old_err,    \* per thread: _old_targets of its redirect_stderr object
  buf,        \* per thread: its StringIO, as the writers of its lines
  wrote,      \* per thread: lines its SDK call has written in this call
  sdkOut,     \* per thread: how its SDK call ended
  cresult     \* per thread: what its tool call returned or raised

captureVars ==
  << cpc, tool, _STDOUT_REDIRECT_LOCK, sys_stdout, sys_stderr, old_out, old_err,
     buf, wrote, sdkOut, cresult >>

VARIABLES
  adapter,    \* Log capture: the adapter called ("none": no call made)
  args,       \* Log capture: the arguments of the call
  sdkRet,     \* Log capture: what the SDK tail call did (text written, value
              \* returned)
  sdkTail,    \* Log capture: the tail argument the SDK tail call received
  captured    \* Log capture: what the tool returned or raised

logVars == << adapter, args, sdkRet, sdkTail, captured >>

VARIABLES
  obj,        \* Serializer: the object given (Unset: none)
  twin,       \* Serializer: an object equal to obj, given in another run
  made,       \* Serializer: _make_serializable(obj)
  twinMade,   \* Serializer: _make_serializable(twin)
  dumped,     \* Serializer: safe_json_serialize(obj)
  twinDumped  \* Serializer: safe_json_serialize(twin)

serializerVars == << obj, twin, made, twinMade, dumped, twinDumped >>

VARIABLES
  lpc,        \* Server: where skypilot_lifespan is ("new": not entered)
  yields,     \* Server: number of yields skypilot_lifespan has reached
  checked,    \* Server: how the startup call of sky.api_info ended
  ended,      \* Server: how the body of the server ended
  tcall,      \* Tools: the tool called and its arguments (NoCall: none)
  events,     \* Tools: the SDK operations and resolve_request calls the
              \* tool call made, in order
  toolOut,    \* Tools: what the tool call returned or raised
  issued,     \* Tools: number of request ids the SDK has issued
  fetched     \* Tools: the request ids whose result has been fetched

serverVars ==
  << lpc, yields, checked, ended, tcall, events, toolOut, issued, fetched >>

otherVars == << captureVars, logVars, serializerVars, serverVars >>

vars == << resolverVars, translatorVars, otherVars >>

\* The failures the fetch (sky.get) raises in the model: the RuntimeError of
\* test_resolve_request_propagates_errors and a TimeoutError of the fetch's
\* own (a socket read that timed out).
FetchFailures ==
  { Failure("RuntimeError", {"Exception"}, "connection lost"),
    TimeoutError("read timed out") }

FetchOutcomes == {Return(v) : v \in Values} \cup {Raise(f) : f \in FetchFailures}

ResolverInit ==
  /\ pc = [c \in Calls |-> "idle"]
  /\ api = [c \in Calls |-> "resolve_request"]
  /\ handle = [c \in Calls |-> HandleOf(c)]
  /\ timeout = [c \in Calls |-> DEFAULT_RESOLVE_TIMEOUT]
  /\ elapsed = [c \in Calls |-> 0]
  /\ pool = [c \in Calls |-> 0]
  /\ fut = [c \in Calls |-> "NONE"]
  /\ futOut = [c \in Calls |-> NoOutcome]
  /\ waitEnd = [c \in Calls |-> "none"]
  /\ cancelTry = [c \in Calls |-> FALSE]
  /\ pending = [c \in Calls |-> NoOutcome]
  /\ outcome = [c \in Calls |-> NoOutcome]
  /\ surfaced = [c \in Calls |-> NoOutcome]
  /\ exec = [e \in ExecIds |-> "new"]
  /\ worker = [e \in ExecIds |-> "none"]
  /\ queue = [e \in ExecIds |-> << >>]
  /\ running = [e \in ExecIds |-> 0]
  /\ submits = [e \in ExecIds |-> 0]
  /\ created = 0

TranslatorInit ==
  /\ thrown = NoOutcome
  /\ once = NoOutcome
  /\ twice = NoOutcome

\* The threads in which the protocol server runs tool calls.
ToolThreads == 1 .. NTools

CaptureInit ==
  /\ cpc = [t \in ToolThreads |-> "idle"]
  /\ tool = [t \in ToolThreads |-> "skypilot_api_server_logs"]
  /\ _STDOUT_REDIRECT_LOCK = 0
  /\ sys_stdout = 0
  /\ sys_stderr = 0
  /\ old_out = [t \in ToolThreads |-> << >>]
  /\ old_err = [t \in ToolThreads |-> << >>]
  /\ buf = [t \in ToolThreads |-> << >>]
  /\ wrote = [t \in ToolThreads |-> 0]
  /\ sdkOut = [t \in ToolThreads |-> NoOutcome]
  /\ cresult = [t \in ToolThreads |-> NoOutcome]

\* The arguments of a log tool: the name of its target (cluster, service or
\* pool; None when a managed job is given by its id), job_id and tail.
LogArgs(name, job_id, tail) == [name |-> name, job_id |-> job_id, tail |-> tail]

\* What an SDK tail call did: the text it wrote to the stream and the value
\* it returned.
SdkTailed(text, ret) == [text |-> text, ret |-> ret]

LogsInit ==
  /\ adapter = "none"
  /\ args = LogArgs(PyNone, PyNone, 0)
  /\ sdkRet = SdkTailed("", PyNone)
  /\ sdkTail = PyNone
  /\ captured = NoOutcome

\* No object given yet.
Unset == [t |-> "unset"]

SerializerInit ==
  /\ obj = Unset
  /\ twin = Unset
  /\ made = Unset
  /\ twinMade = Unset
  /\ dumped = ""
  /\ twinDumped = ""

\* No tool called.
NoCall == [tool |-> "none"]

ServerInit ==
  /\ lpc = "new"
  /\ yields = 0
  /\ checked = NoOutcome
  /\ ended = NoOutcome
  /\ tcall = NoCall
  /\ events = << >>
  /\ toolOut = NoOutcome
  /\ issued = 0
  /\ fetched = {}

Init ==
  /\ ResolverInit
  /\ TranslatorInit
  /\ CaptureInit
  /\ LogsInit
  /\ SerializerInit
  /\ ServerInit

\* ------------------------------------------------------------------------
\* Request Resolver: operations
\* ------------------------------------------------------------------------

\* A module-level executor shared by all calls.
SharedExecutor == Min(ExecIds)

\* The executor a call gets: ThreadPoolExecutor(max_workers=1) constructs a
\* new one each time the with statement is entered.
NewExecutor == created + 1

\* shutdown(wait=False): __exit__ returns without joining the worker thread.
ShutdownNoWait == FALSE

\* The with statement leaves through ThreadPoolExecutor.__exit__, which is
\* shutdown(wait=True): it joins the worker thread.
ShutdownWaits == TRUE

\* except concurrent.futures.TimeoutError: the failures that clause catches.
CaughtAsTimeout(f) == IsInstance(f, FuturesTimeoutError)

\* The TimeoutError message of resolve_request.
TimeoutMessage(request_id, t) ==
  "Request " \o request_id \o " did not complete within " \o ToString(t)
  \o "s. The request may still be running on the server. "
  \o "Use skypilot_api_status to check its status."

\* A with body that serializes the value before returning it.
BodyOutcomeSerialized(request_id, t, o) ==
  IF o.kind = "raise" /\ CaughtAsTimeout(o.exc)
  THEN Raise(TimeoutError(TimeoutMessage(request_id, t)))
  ELSE IF o.kind = "return" THEN Return(PyStr(safe_json_serialize(o.value)))
  ELSE o

\* Outcome of the with body when future.result() hands back outcome o of the
\* fetch within the timeout: a value is returned, a failure is re-raised in
\* the caller, where the except clause may catch it.
BodyOutcome(request_id, t, o) ==
  IF o.kind = "raise" /\ CaughtAsTimeout(o.exc)
  THEN Raise(TimeoutError(TimeoutMessage(request_id, t)))
  ELSE o

\* The body of skypilot_get_request, given what resolve_request did.
GetRequestBody(resolved) ==
  IF resolved.kind = "return"
  THEN Return(PyStr(safe_json_serialize(resolved.value)))
  ELSE resolved

\* skypilot_get_request as registered: its body under handle_skypilot_error.
skypilot_get_request(resolved) == handle_skypilot_error(GetRequestBody(resolved))

\* What the tool framework hands the client when it ends a call at the tool
\* timeout.
Terminated == [kind |-> "terminated"]

InCall(c) == pc[c] \in {"result", "exit"}

\* A protocol thread calls resolve_request(h, t) directly, or the
\* skypilot_get_request tool, which calls resolve_request(h).  The with
\* statement constructs the executor and submit() queues the fetch and
\* starts the worker thread; the caller then blocks in future.result(t).
Call(c, a, h, t) ==
  /\ pc[c] = "idle"
  /\ a = "skypilot_get_request" => t = DEFAULT_RESOLVE_TIMEOUT
  /\ LET e == NewExecutor
     IN /\ pool' = [pool EXCEPT ![c] = e]
        /\ exec' = [exec EXCEPT ![e] = "open"]
        /\ worker' = [worker EXCEPT ![e] = IF @ \in {"none", "exited"} THEN "idle" ELSE @]
        /\ queue' = [queue EXCEPT ![e] = Append(@, c)]
        /\ submits' = [submits EXCEPT ![e] = @ + 1]
  /\ created' = created + 1
  /\ pc' = [pc EXCEPT ![c] = "result"]
  /\ api' = [api EXCEPT ![c] = a]
  /\ handle' = [handle EXCEPT ![c] = h]
  /\ timeout' = [timeout EXCEPT ![c] = t]
  /\ elapsed' = [elapsed EXCEPT ![c] = 0]
  /\ fut' = [fut EXCEPT ![c] = "PENDING"]
  /\ futOut' = [futOut EXCEPT ![c] = NoOutcome]
  /\ waitEnd' = [waitEnd EXCEPT ![c] = "none"]
  /\ cancelTry' = [cancelTry EXCEPT ![c] = FALSE]
  /\ pending' = [pending EXCEPT ![c] = NoOutcome]
  /\ outcome' = [outcome EXCEPT ![c] = NoOutcome]
  /\ surfaced' = [surfaced EXCEPT ![c] = NoOutcome]
  /\ UNCHANGED << running, translatorVars, otherVars >>

\* The state of an executor's worker thread w once the executor is shut
\* down: the thread ends as soon as it is idle and the queue q is empty.
AfterShutdown(w, q) == IF w = "idle" /\ q = << >> THEN "exited" ELSE w

\* The worker thread takes the next work item; a cancelled one is dropped
\* (set_running_or_notify_cancel), any other starts running sky.get.
WorkerStart(e) ==
  /\ worker[e] = "idle"
  /\ queue[e] # << >>
  /\ LET c == Head(queue[e])
     IN IF fut[c] = "CANCELLED"
        THEN /\ worker' = [worker EXCEPT ![e] =
                             IF exec[e] = "shutdown"
                             THEN AfterShutdown("idle", Tail(queue[e])) ELSE @]
             /\ UNCHANGED << fut, running >>
        ELSE /\ fut' = [fut EXCEPT ![c] = "RUNNING"]
             /\ worker' = [worker EXCEPT ![e] = "busy"]
             /\ running' = [running EXCEPT ![e] = c]
  /\ queue' = [queue EXCEPT ![e] = Tail(@)]
  /\ UNCHANGED << pc, api, handle, timeout, elapsed, pool, futOut, waitEnd, cancelTry,
                  pending, outcome, surfaced, exec, submits, created, translatorVars, otherVars >>

\* sky.get ends with outcome o; the worker sets it on the Future and is idle
\* again.  Once the caller has left future.result() nothing reads the Future
\* any more, and what is set on it is not kept.
FetchDone(e, o) ==
  /\ worker[e] = "busy"
  /\ LET c == running[e]
     IN IF pool[c] = e /\ fut[c] = "RUNNING"
        THEN /\ fut' = [fut EXCEPT ![c] = "FINISHED"]
             /\ futOut' = [futOut EXCEPT ![c] = IF pc[c] = "result" THEN o ELSE @]
        ELSE UNCHANGED << fut, futOut >>
  /\ worker' = [worker EXCEPT ![e] =
                  IF exec[e] = "shutdown" THEN AfterShutdown("idle", queue[e]) ELSE "idle"]
  /\ running' = [running EXCEPT ![e] = 0]
  /\ UNCHANGED << pc, api, handle, timeout, elapsed, pool, waitEnd, cancelTry, pending,
                  outcome, surfaced, exec, queue, submits, created, translatorVars, otherVars >>

\* What the client of call c receives when resolve_request ends with outcome
\* o: a tool call passes it through the tool, unless the framework has ended
\* the call already.
Surface(c, o) ==
  IF surfaced[c] # NoOutcome THEN surfaced[c]
  ELSE IF api[c] = "skypilot_get_request" THEN skypilot_get_request(o)
  ELSE o

\* The with body of call c has ended with outcome body: __exit__ shuts the
\* executor down and, if it waits, returns only once the worker thread has
\* ended; resolve_request then returns or raises what its body did.
LeaveWith(c, body) ==
  LET e == pool[c]
      w == AfterShutdown(worker[e], queue[e])
  IN /\ pending' = [pending EXCEPT ![c] = body]
     /\ exec' = [exec EXCEPT ![e] = "shutdown"]
     /\ worker' = [worker EXCEPT ![e] = w]
     /\ IF ShutdownWaits => w = "exited"
        THEN /\ pc' = [pc EXCEPT ![c] = "done"]
             /\ outcome' = [outcome EXCEPT ![c] = body]
             /\ surfaced' = [surfaced EXCEPT ![c] = Surface(c, body)]
             /\ elapsed' = [elapsed EXCEPT ![c] = 0]
        ELSE /\ pc' = [pc EXCEPT ![c] = "exit"]
             /\ UNCHANGED << outcome, surfaced, elapsed >>

\* future.result(timeout) ends because the Future is finished.
ResultReady(c) ==
  /\ pc[c] = "result"
  /\ fut[c] = "FINISHED"
  /\ waitEnd' = [waitEnd EXCEPT ![c] = "finished"]
  /\ cancelTry' = [cancelTry EXCEPT ![c] =
                     futOut[c].kind = "raise" /\ CaughtAsTimeout(futOut[c].exc)]
  /\ LeaveWith(c, BodyOutcome(handle[c], timeout[c], futOut[c]))
  /\ UNCHANGED << api, handle, timeout, pool, fut, futOut, queue, running, submits,
                  created, translatorVars, otherVars >>

\* future.result(timeout) raises concurrent.futures.TimeoutError: the
\* handler calls future.cancel(), which cancels a Future that is not running
\* yet and does nothing to a running one, and raises the TimeoutError.
ResultTimeout(c) ==
  /\ pc[c] = "result"
  /\ fut[c] \in {"PENDING", "RUNNING"}
  /\ elapsed[c] >= timeout[c]
  /\ waitEnd' = [waitEnd EXCEPT ![c] = "timeout"]
  /\ cancelTry' = [cancelTry EXCEPT ![c] = TRUE]
  /\ fut' = [fut EXCEPT ![c] = IF @ = "PENDING" THEN "CANCELLED" ELSE @]
  /\ LeaveWith(c, Raise(TimeoutError(TimeoutMessage(handle[c], timeout[c]))))
  /\ UNCHANGED << api, handle, timeout, pool, futOut, queue, running, submits, created,
                  translatorVars, otherVars >>

\* __exit__ returns, the worker thread having ended.
ExitJoin(c) ==
  /\ pc[c] = "exit"
  /\ ShutdownWaits => worker[pool[c]] = "exited"
  /\ outcome' = [outcome EXCEPT ![c] = pending[c]]
  /\ surfaced' = [surfaced EXCEPT ![c] = Surface(c, pending[c])]
  /\ pc' = [pc EXCEPT ![c] = "done"]
  /\ elapsed' = [elapsed EXCEPT ![c] = 0]
  /\ UNCHANGED << api, handle, timeout, pool, fut, futOut, waitEnd, cancelTry,
                  pending, exec, worker, queue, running, submits, created, translatorVars, otherVars >>

\* The tool framework ends a skypilot_get_request call that has run for the
\* tool timeout without an answer.
ToolTimeout(c) ==
  /\ api[c] = "skypilot_get_request"
  /\ InCall(c)
  /\ surfaced[c] = NoOutcome
  /\ elapsed[c] >= TOOL_TIMEOUT
  /\ surfaced' = [surfaced EXCEPT ![c] = Terminated]
  /\ UNCHANGED << pc, api, handle, timeout, elapsed, pool, fut, futOut, waitEnd, cancelTry,
                  pending, outcome, exec, worker, queue, running, submits, created,
                  translatorVars, otherVars >>

\* Some step that takes no time is due: a worker thread that can take a work
\* item, a wait that can end, an __exit__ that can return, a tool timeout
\* that has expired.
Urgent ==
  \/ \E e \in ExecIds : worker[e] = "idle" /\ queue[e] # << >>
  \/ \E c \in Calls :
       \/ pc[c] = "result" /\ (fut[c] = "FINISHED" \/ elapsed[c] >= timeout[c])
       \/ pc[c] = "exit" /\ (ShutdownWaits => worker[pool[c]] = "exited")
       \/ /\ api[c] = "skypilot_get_request" /\ InCall(c)
          /\ surfaced[c] = NoOutcome /\ elapsed[c] >= TOOL_TIMEOUT

\* Seconds until the next deadline of call c: the timeout of its wait and,
\* for a tool call, the tool timeout.
Deadlines(c) ==
  (IF pc[c] = "result" /\ elapsed[c] < timeout[c]
   THEN {timeout[c] - elapsed[c]} ELSE {})
  \cup
  (IF api[c] = "skypilot_get_request" /\ surfaced[c] = NoOutcome
      /\ elapsed[c] < TOOL_TIMEOUT
   THEN {TOOL_TIMEOUT - elapsed[c]} ELSE {})

\* Time passes for every call in progress, up to the next deadline.
Tick ==
  /\ ~Urgent
  /\ \E c \in Calls : InCall(c)
  /\ \A c \in Calls : InCall(c) => elapsed[c] < Horizon
  /\ LET d == Min({TickSeconds}
                  \cup UNION {Deadlines(c) \cup {Horizon - elapsed[c]} :
                               c \in {x \in Calls : InCall(x)}})
     IN elapsed' = [c \in Calls |-> IF InCall(c) THEN elapsed[c] + d ELSE elapsed[c]]
  /\ UNCHANGED << pc, api, handle, timeout, pool, fut, futOut, waitEnd, cancelTry,
                  pending, outcome, surfaced, exec, worker, queue, running, submits,
                  created, translatorVars, otherVars >>

Next ==
  \/ \E c \in Calls : Call(c, "resolve_request", HandleOf(c), ShortTimeout)
  \/ \E c \in Calls : Call(c, "skypilot_get_request", HandleOf(c), DEFAULT_RESOLVE_TIMEOUT)
  \/ \E e \in ExecIds : WorkerStart(e)
  \/ \E e \in ExecIds, o \in FetchOutcomes : FetchDone(e, o)
  \/ \E c \in Calls : ResultReady(c)
  \/ \E c \in Calls : ResultTimeout(c)
  \/ \E c \in Calls : ExitJoin(c)
  \/ \E c \in Calls : ToolTimeout(c)
  \/ Tick

Spec == Init /\ [][Next]_vars

\* ------------------------------------------------------------------------
\* Error Translator: a wrapped callable is invoked
\* ------------------------------------------------------------------------

\* The kinds the except clauses name, without the final "except Exception".
ListedKinds == {HandlerTable[i].kind : i \in 1 .. Len(HandlerTable) - 1}

\* The sets of at most n listed kinds.
RECURSIVE KindSets(_)
KindSets(n) ==
  IF n = 0 THEN {{}}
  ELSE LET P == KindSets(n - 1)
       IN P \cup {p \cup {k} : p \in P, k \in ListedKinds}

Messages == {"no A100s", "bad input"}

\* The failures a wrapped callable raises: an instance of a class deriving
\* from one or more listed kinds, of an unlisted class deriving from
\* Exception, of a class deriving from BaseException alone, and the
\* TimeoutError of resolve_request.
RaisedFailures ==
  {Failure(IF Cardinality(B) = 1 THEN CHOOSE k \in B : TRUE ELSE "Derived",
           B \cup {"Exception"}, m) :
     B \in KindSets(MaxBases) \ {{}}, m \in Messages}
  \cup {Failure(n, {"Exception"}, m) : n \in {"RuntimeError", "KeyError"}, m \in Messages}
  \cup {Failure(n, {}, m) : n \in {"SystemExit", "KeyboardInterrupt"}, m \in Messages}
  \cup {TimeoutError(TimeoutMessage(h, t)) : h \in Handles, t \in Timeouts}

CallableOutcomes ==
  {Return(PyStr(safe_json_serialize(v))) : v \in Values}
  \cup {Raise(f) : f \in RaisedFailures}

\* A callable ending with outcome out is invoked bare, under
\* handle_skypilot_error, and under handle_skypilot_error applied twice.
Invoke(out) ==
  /\ thrown = NoOutcome
  /\ thrown' = out
  /\ once' = handle_skypilot_error(out)
  /\ twice' = handle_skypilot_error(handle_skypilot_error(out))
  /\ UNCHANGED << resolverVars, otherVars >>

Forget ==
  /\ thrown # NoOutcome
  /\ thrown' = NoOutcome
  /\ once' = NoOutcome
  /\ twice' = NoOutcome
  /\ UNCHANGED << resolverVars, otherVars >>

NextTranslate == (\E out \in CallableOutcomes : Invoke(out)) \/ Forget

SpecTranslate == Init /\ [][NextTranslate]_vars

\* ------------------------------------------------------------------------
\* Log capture by redirection of the process streams
\* ------------------------------------------------------------------------

\* The two tools that redirect sys.stdout and sys.stderr into a StringIO.
RedirectTools == {"skypilot_api_server_logs", "skypilot_tail_autostop_logs"}

\* The cluster whose autostop log the autostop calls ask for.
AutostopCluster == "c1"

\* repr() of a str without quotes or escapes in it.
Repr(str) == "'" \o str \o "'"

\* The line the SDK call of thread w writes.
Line(w) == "line of call " \o ToString(w) \o "\n"

\* StringIO.getvalue(): the lines written, in the order of the writes.
RECURSIVE getvalue(_)
getvalue(b) == IF b = << >> THEN "" ELSE Line(Head(b)) \o getvalue(Tail(b))

\* Truth value of what an SDK tail call returned: None and 0 are false.
Truthy(v) == v.t = "int" /\ v.n # 0

\* How the SDK calls of the two tools end: api_server_logs returns None,
\* tail_autostop_logs an exit code; either may raise.
SdkFailures == {Failure("ApiServerConnectionError",
                        {"ApiServerConnectionError", "Exception"}, "cannot connect")}

SdkOutcomes(name) ==
  (IF name = "skypilot_tail_autostop_logs"
   THEN {Return(PyInt(0)), Return(PyInt(1))} ELSE {Return(PyNone)})
  \cup {Raise(f) : f \in SdkFailures}

\* What follows the with statement of skypilot_api_server_logs: the text of
\* buf is returned; a failure of the SDK call has left the function.
api_server_logs_body(sdk, output) ==
  IF sdk.kind = "raise" THEN sdk ELSE Return(PyStr(output))

\* What follows the with statement of skypilot_tail_autostop_logs: an exit
\* code that is true raises the RuntimeError naming the cluster, the exit
\* code and the output, if any; otherwise the text of buf is returned.
tail_autostop_logs_body(cluster_name, sdk, output) ==
  IF sdk.kind = "raise" THEN sdk
  ELSE IF Truthy(sdk.value)
  THEN Raise(Failure("RuntimeError", {"Exception"},
               "Failed to retrieve autostop logs for cluster " \o Repr(cluster_name)
               \o ": exit code " \o ToString(sdk.value.n) \o "."
               \o (IF output # "" THEN "\nOutput: " \o output ELSE "")))
  ELSE Return(PyStr(output))

\* The tool as registered, under handle_skypilot_error.
RedirectToolResult(name, sdk, output) ==
  handle_skypilot_error(
    IF name = "skypilot_tail_autostop_logs"
    THEN tail_autostop_logs_body(AutostopCluster, sdk, output)
    ELSE api_server_logs_body(sdk, output))

\* A lock that lets every caller in.
LockIgnored == TRUE

\* threading.Lock.acquire() returns only when the lock is free.
LockAvailable == _STDOUT_REDIRECT_LOCK = 0

\* A redirection undone by plain statements after the call: a failure of the
\* SDK call skips them.
ExitsSkippedOnRaise == FALSE

\* The with statement runs the __exit__ of its three context managers also
\* when its body raises.
ExitsRunOnRaise == TRUE

InSection(t) == cpc[t] \in {"out", "err", "sdk", "xerr", "xout", "unlock"}

\* No tool call has ended without its answer being sent yet.  Sending the
\* answer involves nothing the threads share, so it is taken to follow the
\* end of the call at once: the other steps wait for it.
Answered == \A t \in ToolThreads : cpc[t] # "done"

\* The tool call of thread t ends with outcome out; the locals of the call
\* (its StringIO among them) are gone.
ToolReturns(t, out) ==
  /\ cresult' = [cresult EXCEPT ![t] = out]
  /\ cpc' = [cpc EXCEPT ![t] = "done"]
  /\ buf' = [buf EXCEPT ![t] = << >>]
  /\ sdkOut' = [sdkOut EXCEPT ![t] = NoOutcome]
  /\ UNCHANGED << tool, wrote >>

\* The protocol server sends the answer of the call that ended, and the
\* thread is free for the next call.
Answer(t) ==
  /\ cpc[t] = "done"
  /\ cpc' = [cpc EXCEPT ![t] = "idle"]
  /\ tool' = [tool EXCEPT ![t] = "skypilot_api_server_logs"]
  /\ wrote' = [wrote EXCEPT ![t] = 0]
  /\ cresult' = [cresult EXCEPT ![t] = NoOutcome]
  /\ UNCHANGED << _STDOUT_REDIRECT_LOCK, sys_stdout, sys_stderr, old_out, old_err,
                  buf, sdkOut, resolverVars, translatorVars, logVars, serializerVars,
                  serverVars >>

\* A tool thread calls one of the redirecting tools: it creates its StringIO
\* and reaches the with statement.
CaptureCall(t, name) ==
  /\ Answered
  /\ cpc[t] = "idle"
  /\ name \in RedirectTools
  /\ cpc' = [cpc EXCEPT ![t] = "lock"]
  /\ tool' = [tool EXCEPT ![t] = name]
  /\ UNCHANGED << _STDOUT_REDIRECT_LOCK, sys_stdout, sys_stderr, old_out, old_err,
                  buf, wrote, sdkOut, cresult, resolverVars, translatorVars, logVars, serializerVars,
                  serverVars >>

\* _STDOUT_REDIRECT_LOCK.__enter__
Acquire(t) ==
  /\ Answered
  /\ cpc[t] = "lock"
  /\ LockAvailable
  /\ _STDOUT_REDIRECT_LOCK' = t
  /\ cpc' = [cpc EXCEPT ![t] = "out"]
  /\ UNCHANGED << tool, sys_stdout, sys_stderr, old_out, old_err, buf, wrote, sdkOut,
                  cresult, resolverVars, translatorVars, logVars, serializerVars,
                  serverVars >>

\* redirect_stdout(buf).__enter__: the current target is kept, buf put in
\* its place.
EnterRedirectStdout(t) ==
  /\ Answered
  /\ cpc[t] = "out"
  /\ old_out' = [old_out EXCEPT ![t] = Append(@, sys_stdout)]
  /\ sys_stdout' = t
  /\ cpc' = [cpc EXCEPT ![t] = "err"]
  /\ UNCHANGED << tool, _STDOUT_REDIRECT_LOCK, sys_stderr, old_err, buf, wrote, sdkOut,
                  cresult, resolverVars, translatorVars, logVars, serializerVars,
                  serverVars >>

\* redirect_stderr(buf).__enter__
EnterRedirectStderr(t) ==
  /\ Answered
  /\ cpc[t] = "err"
  /\ old_err' = [old_err EXCEPT ![t] = Append(@, sys_stderr)]
  /\ sys_stderr' = t
  /\ cpc' = [cpc EXCEPT ![t] = "sdk"]
  /\ UNCHANGED << tool, _STDOUT_REDIRECT_LOCK, sys_stdout, old_out, buf, wrote, sdkOut,
                  cresult, resolverVars, translatorVars, logVars, serializerVars,
                  serverVars >>
\* A tool that redirects nothing: skypilot_api_stop calls sky.api_stop().
OtherTool == "skypilot_api_stop"

\* A tool thread calls the other tool and is in its SDK call.
OtherCall(t) ==
  /\ Answered
  /\ cpc[t] = "idle"
  /\ cpc' = [cpc EXCEPT ![t] = "run"]
  /\ tool' = [tool EXCEPT ![t] = OtherTool]
  /\ UNCHANGED << _STDOUT_REDIRECT_LOCK, sys_stdout, sys_stderr, old_out, old_err,
                  buf, wrote, sdkOut, cresult, resolverVars, translatorVars, logVars, serializerVars,
                  serverVars >>

\* The SDK call running in thread t writes a line to sys.stdout or to
\* sys.stderr: the line goes to the target the name has at that moment, the
\* process stream or the StringIO of a call.
Write(t, stream) ==
  /\ Answered
  /\ cpc[t] \in {"sdk", "run"}
  /\ wrote[t] < MaxWrites
  /\ wrote' = [wrote EXCEPT ![t] = @ + 1]
  /\ LET target == IF stream = "stdout" THEN sys_stdout ELSE sys_stderr
     IN IF target = 0
        THEN UNCHANGED buf
        ELSE /\ Len(buf[target]) < MaxWrites
             /\ buf' = [buf EXCEPT ![target] = Append(@, t)]
  /\ UNCHANGED << cpc, tool, _STDOUT_REDIRECT_LOCK, sys_stdout, sys_stderr, old_out,
                  old_err, sdkOut, cresult, resolverVars, translatorVars, logVars, serializerVars,
                  serverVars >>

\* The SDK call of a redirecting tool ends with outcome o, and the with
\* statement begins to leave.
SdkEnd(t, o) ==
  /\ Answered
  /\ cpc[t] = "sdk"
  /\ o \in SdkOutcomes(tool[t])
  /\ IF o.kind = "raise" /\ ~ExitsRunOnRaise
     THEN ToolReturns(t, RedirectToolResult(tool[t], o, getvalue(buf[t])))
     ELSE /\ cpc' = [cpc EXCEPT ![t] = "xerr"]
          /\ sdkOut' = [sdkOut EXCEPT ![t] = o]
          /\ UNCHANGED << tool, buf, wrote, cresult >>
  /\ UNCHANGED << _STDOUT_REDIRECT_LOCK, sys_stdout, sys_stderr, old_out, old_err,
                  resolverVars, translatorVars, logVars, serializerVars,
                  serverVars >>

\* redirect_stderr.__exit__: sys.stderr gets the target kept on entry.
ExitRedirectStderr(t) ==
  /\ Answered
  /\ cpc[t] = "xerr"
  /\ sys_stderr' = old_err[t][Len(old_err[t])]
  /\ old_err' = [old_err EXCEPT ![t] = SubSeq(@, 1, Len(@) - 1)]
  /\ cpc' = [cpc EXCEPT ![t] = "xout"]
  /\ UNCHANGED << tool, _STDOUT_REDIRECT_LOCK, sys_stdout, old_out, buf, wrote, sdkOut,
                  cresult, resolverVars, translatorVars, logVars, serializerVars,
                  serverVars >>

\* redirect_stdout.__exit__
ExitRedirectStdout(t) ==
  /\ Answered
  /\ cpc[t] = "xout"
  /\ sys_stdout' = old_out[t][Len(old_out[t])]
  /\ old_out' = [old_out EXCEPT ![t] = SubSeq(@, 1, Len(@) - 1)]
  /\ cpc' = [cpc EXCEPT ![t] = "unlock"]
  /\ UNCHANGED << tool, _STDOUT_REDIRECT_LOCK, sys_stderr, old_err, buf, wrote, sdkOut,
                  cresult, resolverVars, translatorVars, logVars, serializerVars,
                  serverVars >>

\* _STDOUT_REDIRECT_LOCK.__exit__ releases the lock; the tool then reads
\* buf.getvalue() and returns or raises.
Release(t) ==
  /\ Answered
  /\ cpc[t] = "unlock"
  /\ _STDOUT_REDIRECT_LOCK' = 0
  /\ ToolReturns(t, RedirectToolResult(tool[t], sdkOut[t], getvalue(buf[t])))
  /\ UNCHANGED << sys_stdout, sys_stderr, old_out, old_err, resolverVars,
                  translatorVars, logVars, serializerVars,
                  serverVars >>

\* sky.api_stop() returns, skypilot_api_stop returns its message and the
\* thread is free again.
OtherEnd(t) ==
  /\ Answered
  /\ cpc[t] = "run"
  /\ cpc' = [cpc EXCEPT ![t] = "idle"]
  /\ tool' = [tool EXCEPT ![t] = "skypilot_api_server_logs"]
  /\ wrote' = [wrote EXCEPT ![t] = 0]
  /\ UNCHANGED << _STDOUT_REDIRECT_LOCK, sys_stdout, sys_stderr, old_out, old_err,
                  buf, sdkOut, cresult, resolverVars, translatorVars, logVars, serializerVars,
                  serverVars >>

\* The steps of thread t from the acquired lock to its release.
SectionStep(t) ==
  \/ EnterRedirectStdout(t)
  \/ EnterRedirectStderr(t)
  \/ \E o \in SdkOutcomes(tool[t]) : SdkEnd(t, o)
  \/ ExitRedirectStderr(t)
  \/ ExitRedirectStdout(t)
  \/ Release(t)

NextCapture ==
  \/ \E t \in ToolThreads, name \in RedirectTools : CaptureCall(t, name)
  \/ \E t \in ToolThreads : OtherCall(t)
  \/ \E t \in ToolThreads : Acquire(t)
  \/ \E t \in ToolThreads : SectionStep(t)
  \/ \E t \in ToolThreads, stream \in {"stdout", "stderr"} : Write(t, stream)
  \/ \E t \in ToolThreads : OtherEnd(t)
  \/ \E t \in ToolThreads : Answer(t)

SpecCapture == Init /\ [][NextCapture]_vars

\* An answer due is sent; every thread holding the lock goes on to the
\* release (its SDK call ends); and a thread blocked in acquire() does not
\* lose the lock to others for ever.  The fairness of the steps of a call is
\* strong because they wait, here, while an answer is due.
SpecCaptureFair ==
  /\ SpecCapture
  /\ WF_vars(\E t \in ToolThreads : Answer(t))
  /\ SF_vars(\E t \in ToolThreads : SectionStep(t))
  /\ \A t \in ToolThreads : SF_vars(Acquire(t))

\* ------------------------------------------------------------------------
\* Log capture adapters
\* ------------------------------------------------------------------------

\* repr() of None, an int or a str, the form {x!r} gives in an f-string.
ReprOf(v) == IF v.t = "str" THEN Repr(v.s) ELSE Str(v)

\* bool() of None, an int, a str or a list.
IsTrue(v) ==
  CASE v.t = "None" -> FALSE
    [] v.t = "int" -> v.n # 0
    [] v.t = "str" -> v.s # ""
    [] v.t = "list" -> Len(v.xs) # 0

\* sdk_tail = tail, without the conversion.
sdk_tail_unconverted(tail) == PyInt(tail)

\* sdk_tail = None if tail == 0 else tail
sdk_tail(tail) == IF tail = 0 THEN PyNone ELSE PyInt(tail)

\* What a call of an adapter comes to: the tail the SDK call was given and
\* what the adapter returned or raised.
Captured(tail, out) == [tail |-> tail, out |-> out]

RuntimeError(msg) == Failure("RuntimeError", {"Exception"}, msg)

\* capture_cluster_logs: tail goes to sky.tail_logs as it is; an exit code
\* that is true raises.
capture_cluster_logs(cluster_name, job_id, tail, sdk) ==
  Captured(PyInt(tail),
    IF IsTrue(sdk.ret)
    THEN Raise(RuntimeError(
           "Failed to retrieve logs for cluster " \o ReprOf(cluster_name)
           \o " (job_id=" \o Str(job_id) \o "): tail_logs returned exit code "
           \o Str(sdk.ret) \o "."))
    ELSE Return(PyStr(sdk.text)))

\* capture_managed_job_logs: 0 becomes None; an exit code that is true
\* raises, naming "name or job_id".
capture_managed_job_logs(name, job_id, tail, sdk) ==
  Captured(sdk_tail(tail),
    IF IsTrue(sdk.ret)
    THEN LET identifier == IF IsTrue(name) THEN name ELSE job_id
         IN Raise(RuntimeError(
              "Failed to retrieve managed job logs (" \o Str(identifier)
              \o "): tail_logs returned exit code " \o Str(sdk.ret) \o "."))
    ELSE Return(PyStr(sdk.text)))

\* capture_serve_logs: 0 becomes None; what sky.serve.tail_logs returns is
\* not read.
capture_serve_logs(service_name, tail, sdk) ==
  Captured(sdk_tail(tail), Return(PyStr(sdk.text)))

\* capture_pool_logs: 0 becomes None; what sky.jobs.pool_tail_logs returns is
\* not read.
capture_pool_logs(pool_name, tail, sdk) ==
  Captured(sdk_tail(tail), Return(PyStr(sdk.text)))

\* The body of skypilot_tail_provision_logs: tail goes to
\* sky.tail_provision_logs as it is, and what that returns is not read.
tail_provision_logs_body(cluster_name, tail, sdk) ==
  Captured(PyInt(tail), Return(PyStr(sdk.text)))

\* The body of skypilot_tail_autostop_logs, the redirection apart: tail goes
\* to sky.tail_autostop_logs as it is.
tail_autostop_logs_capture(cluster_name, tail, sdk) ==
  Captured(PyInt(tail),
           tail_autostop_logs_body(cluster_name.s, Return(sdk.ret), sdk.text))

\* The six log tools, by the SDK call each makes.
LogAdapters ==
  {"sky.tail_logs", "sky.jobs.tail_logs", "sky.serve.tail_logs",
   "sky.jobs.pool_tail_logs", "sky.tail_provision_logs", "sky.tail_autostop_logs"}

\* The adapters whose SDK call returns an exit code; sky.serve.tail_logs and
\* sky.jobs.pool_tail_logs return None.
ExitCodeAdapters ==
  {"sky.tail_logs", "sky.jobs.tail_logs", "sky.tail_provision_logs",
   "sky.tail_autostop_logs"}

\* The adapter a, called with arguments a1 while its SDK call does sdk.
CallAdapter(a, a1, sdk) ==
  CASE a = "sky.tail_logs" -> capture_cluster_logs(a1.name, a1.job_id, a1.tail, sdk)
    [] a = "sky.jobs.tail_logs" ->
         capture_managed_job_logs(a1.name, a1.job_id, a1.tail, sdk)
    [] a = "sky.serve.tail_logs" -> capture_serve_logs(a1.name, a1.tail, sdk)
    [] a = "sky.jobs.pool_tail_logs" -> capture_pool_logs(a1.name, a1.tail, sdk)
    [] a = "sky.tail_provision_logs" -> tail_provision_logs_body(a1.name, a1.tail, sdk)
    [] a = "sky.tail_autostop_logs" -> tail_autostop_logs_capture(a1.name, a1.tail, sdk)

\* The tails the tools are called with: 0, the small ones, 50 and the
\* default 100.
Tails == (0 .. MaxTail) \cup {50, 100}

\* The arguments the tools are called with: every tool names its target,
\* but a managed job may be given by its id alone.
ArgsOf(a) ==
  {LogArgs(n, j, t) :
     n \in {PyStr("c1")} \cup (IF a = "sky.jobs.tail_logs" THEN {PyNone} ELSE {}),
     j \in (IF a \in {"sky.tail_logs", "sky.jobs.tail_logs"}
            THEN {PyNone, PyInt(3)} ELSE {PyNone}),
     t \in Tails}

\* What the SDK call of adapter a may do.
SdkTailOutcomes(a) ==
  {SdkTailed(text, ret) :
     text \in {"", "log line\n"},
     ret \in (IF a \in ExitCodeAdapters THEN {PyInt(0), PyInt(1)} ELSE {PyNone})}

\* A log tool is called: its adapter runs under handle_skypilot_error.
CaptureLogs(a, a1, sdk) ==
  /\ adapter = "none"
  /\ a1 \in ArgsOf(a)
  /\ sdk \in SdkTailOutcomes(a)
  /\ adapter' = a
  /\ args' = a1
  /\ sdkRet' = sdk
  /\ sdkTail' = CallAdapter(a, a1, sdk).tail
  /\ captured' = handle_skypilot_error(CallAdapter(a, a1, sdk).out)
  /\ UNCHANGED << resolverVars, translatorVars, captureVars, serializerVars, serverVars >>

ForgetLogs ==
  /\ adapter # "none"
  /\ adapter' = "none"
  /\ args' = LogArgs(PyNone, PyNone, 0)
  /\ sdkRet' = SdkTailed("", PyNone)
  /\ sdkTail' = PyNone
  /\ captured' = NoOutcome
  /\ UNCHANGED << resolverVars, translatorVars, captureVars, serializerVars, serverVars >>

NextLogs ==
  \/ \E a \in LogAdapters : \E a1 \in ArgsOf(a), sdk \in SdkTailOutcomes(a) :
       CaptureLogs(a, a1, sdk)
  \/ ForgetLogs

SpecLogs == Init /\ [][NextLogs]_vars

\* ------------------------------------------------------------------------
\* Serializer: the objects it is given
\* ------------------------------------------------------------------------

\* The elements of the sets: numbers and strings.
SetElements == {PyInt(1), PyInt(2), PyInt(3), PyStr("a"), PyStr("b")}

\* The orders in which a set of n of these elements can be iterated: one
\* set has one order in one process, and equal sets can differ in it (it
\* follows the hash table: the hashes, which for str change with the hash
\* seed of the process, and the history of insertions).
Orders(n) ==
  {xs \in [1 .. n -> SetElements] : \A i, j \in 1 .. n : i # j => xs[i] # xs[j]}

\* Two sets are equal when they have the same elements.
Elements(xs) == {xs[i] : i \in 1 .. Len(xs)}

SetOrders == UNION {Orders(n) : n \in 0 .. MaxSetSize}

\* The pairs of equal sets.
EqualSets ==
  UNION {{<< PySet(xs), PySet(ys) >> :
            ys \in {zs \in Orders(Len(xs)) : Elements(zs) = Elements(xs)}} :
         xs \in SetOrders}

\* The frozenset of the tests.
Frozensets == {PyFrozenset(<< PyStr("b"), PyStr("a"), PyStr("c") >>)}

Primitives == {PyNone, PyBool(TRUE), PyInt(3), PyFloat("12.5"), PyStr("a")}

\* Enum members: with a str or an int as value, and with a path or a tuple
\* as value.
Enums ==
  {PyEnum("Status", "UP", PyStr("UP")),
   PyEnum("Priority", "HIGH", PyInt(3)),
   PyEnum("LogDir", "LOCAL", PyPath("/tmp/logs")),
   PyEnum("Shape", "PAIR", PyTuple(<< PyInt(1), PyInt(2) >>))}

\* The bytes: of "h" and "i", 0xc3 (the first byte of a two-byte character,
\* which no byte here can continue), and 0xfe and 0xff (in no UTF-8 text).
ByteValues == {104, 105, 195, 254, 255}
BytesObjects ==
  {PyBytes(bs) : bs \in UNION {[1 .. n -> ByteValues] : n \in 0 .. MaxBytes}}

\* Dicts: with str keys, and with an int key and the str of it as keys.
Dicts ==
  {PyDict(<< PyStr("a"), PyStr("b") >>, << PyInt(1), PyList(<< PyInt(2) >>) >>),
   PyDict(<< PyInt(1), PyStr("1") >>, << PyStr("x"), PyStr("y") >>)}

\* One object of each nature.  The first BuiltinNatures of them are
\* instances of built-in types, of which a class can extend one only; the
\* others are natures any class can add.
NatureViews ==
  << PyStr("UP"),
     PyFrozenset(<< PyInt(2), PyInt(1) >>),
     PyDict(<< PyInt(1) >>, << PyNone >>),
     PyTuple(<< PyInt(7) >>),
     PyBytes(<< 104, 105 >>),
     PyModel(PyDict(<< PyStr("via") >>, << PyStr("model_dump") >>)),
     PyLegacy(PyDict(<< PyStr("via") >>, << PyStr("dict") >>)),
     PyDataclass(<< "via" >>, << PyStr("fields") >>),
     PyEnum("Kind", "MEMBER", PyStr("value")),
     PyPath("/tmp/test") >>

BuiltinNatures == Cardinality({"str", "set", "dict", "list", "bytes"})

RECURSIVE ViewsOf(_)
ViewsOf(I) ==
  IF I = {} THEN << >>
  ELSE << NatureViews[Min(I)] >> \o ViewsOf(I \ {Min(I)})

\* The objects of several natures.
Multis ==
  {PyMulti(ViewsOf(I)) :
     I \in {J \in SUBSET (1 .. Len(NatureViews)) :
              /\ Cardinality(J) >= 2
              /\ Cardinality(J) <= MaxNatures
              /\ Cardinality(J \cap (1 .. BuiltinNatures)) <= 1}}

\* The objects that hold no set, each equal to itself only, and the pairs
\* of equal sets.
EqualLeaves ==
  {<< o, o >> :
     o \in Primitives \cup Enums \cup BytesObjects \cup Dicts \cup Multis
           \cup Values \cup Frozensets \cup {PyPath("/tmp/test"), PyObject("2024-01-01 00:00:00")}}
  \cup EqualSets

\* An object alone, or held by a container, a record or a model.
Holders ==
  {"alone", "list", "tuple", "dict", "dataclass", "model_dump", "dict_fields"}

Held(holder, o) ==
  CASE holder = "alone" -> o
    [] holder = "list" -> PyList(<< o, PyInt(3) >>)
    [] holder = "tuple" -> PyTuple(<< o >>)
    [] holder = "dict" -> PyDict(<< PyStr("item") >>, << o >>)
    [] holder = "dataclass" ->
         PyDataclass(<< "name", "item" >>, << PyStr("c1"), o >>)
    [] holder = "model_dump" -> PyModel(PyDict(<< PyStr("item") >>, << o >>))
    [] holder = "dict_fields" -> PyLegacy(PyDict(<< PyStr("item") >>, << o >>))

\* The pairs of equal objects given to the serializer.
EqualObjects ==
  {<< Held(h, p[1]), Held(h, p[2]) >> : h \in Holders, p \in EqualLeaves}

\* ------------------------------------------------------------------------
\* Serializer: actions
\* ------------------------------------------------------------------------

\* safe_json_serialize is called on o, and in another run on the equal
\* object o2.
Serialize(o, o2) ==
  /\ obj = Unset
  /\ obj' = o
  /\ twin' = o2
  /\ made' = _make_serializable(o)
  /\ twinMade' = _make_serializable(o2)
  /\ dumped' = safe_json_serialize(o)
  /\ twinDumped' = safe_json_serialize(o2)
  /\ UNCHANGED << resolverVars, translatorVars, captureVars, logVars, serverVars >>

ForgetSerialized ==
  /\ obj # Unset
  /\ obj' = Unset
  /\ twin' = Unset
  /\ made' = Unset
  /\ twinMade' = Unset
  /\ dumped' = ""
  /\ twinDumped' = ""
  /\ UNCHANGED << resolverVars, translatorVars, captureVars, logVars, serverVars >>

NextSerialize ==
  \/ /\ obj = Unset
     /\ \E p \in EqualObjects : Serialize(p[1], p[2])
  \/ ForgetSerialized

SpecSerialize == Init /\ [][NextSerialize]_vars

(***************************************************************************)
(* The tools: argument checks, the SDK operation, and the reply.           *)
(***************************************************************************)

ValueError(msg) == Failure("ValueError", {"ValueError", "Exception"}, msg)

LowerCase == "abcdefghijklmnopqrstuvwxyz"
UpperCase == "ABCDEFGHIJKLMNOPQRSTUVWXYZ"

\* str.upper(): every lower-case letter replaced by its capital.
RECURSIVE upper(_)
upper(s) ==
  IF s = "" THEN ""
  ELSE LET c == SubSeq(s, 1, 1)
           at == {i \in 1..26 : SubSeq(LowerCase, i, i) = c}
       IN (IF at = {} THEN c
           ELSE SubSeq(UpperCase, Min(at), Min(at)))
          \o upper(SubSeq(s, 2, Len(s)))

Whitespace == {" ", "\n", "\t"}

\* str.strip(): leading and trailing whitespace removed.
RECURSIVE strip(_)
strip(s) ==
  IF s = "" THEN ""
  ELSE IF SubSeq(s, 1, 1) \in Whitespace THEN strip(SubSeq(s, 2, Len(s)))
  ELSE IF SubSeq(s, Len(s), Len(s)) \in Whitespace
       THEN strip(SubSeq(s, 1, Len(s) - 1))
  ELSE s

\* The member names of sky's OptimizeTarget, the values of UpdateMode and
\* of AutostopWaitFor.
OptimizeTarget == << "COST", "TIME" >>
UpdateMode == << "rolling", "blue_green" >>
AutostopWaitFor == << "jobs_and_ssh", "jobs", "none" >>

Range(seq) == {seq[i] : i \in 1..Len(seq)}

RECURSIVE JoinComma(_)
JoinComma(seq) ==
  IF Len(seq) = 0 THEN ""
  ELSE IF Len(seq) = 1 THEN seq[1]
  ELSE seq[1] \o ", " \o JoinComma(Tail(seq))

\* Each check below gives the message of the ValueError it raises, or ""
\* when it passes.

_parse_optimize_target(value) ==
  IF upper(value.s) \in Range(OptimizeTarget) THEN ""
  ELSE "Invalid optimize target: " \o Repr(value.s)
       \o ". Must be one of: " \o JoinComma(OptimizeTarget) \o "."

_parse_update_mode(value) ==
  IF value.s \in Range(UpdateMode) THEN ""
  ELSE "Invalid update mode: " \o Repr(value.s)
       \o ". Must be one of: " \o JoinComma(UpdateMode) \o "."

load_dag_from_yaml(yaml_str) ==
  IF ~IsTrue(yaml_str) \/ strip(yaml_str.s) = ""
  THEN "task_yaml must be a non-empty YAML string."
  ELSE ""

\* pool_apply loads the YAML only when task_yaml is truthy.
load_dag_if_given(yaml_str) ==
  IF IsTrue(yaml_str) THEN load_dag_from_yaml(yaml_str) ELSE ""

\* AutostopWaitFor(wait_for), made only when wait_for is not None.
wait_for_given(value) ==
  IF value = PyNone \/ value.s \in Range(AutostopWaitFor) THEN ""
  ELSE Repr(value.s) \o " is not a valid AutostopWaitFor"

\* job_cancel with its first test only.
ids_or_all_both_only(a, noun, flag) ==
  IF a.all /\ IsTrue(a.ids)
  THEN "Specify either " \o noun \o " or " \o flag \o "=True, not both."
  ELSE ""

\* The two tests of job_cancel: both given, then neither given.
ids_or_all(a, noun, flag) ==
  IF a.all /\ IsTrue(a.ids)
  THEN "Specify either " \o noun \o " or " \o flag \o "=True, not both."
  ELSE IF ~a.all /\ ~IsTrue(a.ids)
  THEN "Specify " \o noun \o " or set " \o flag \o "=True."
  ELSE ""

\* The two tests of serve_down and pool_down: neither given, then both.
names_or_all(a, noun) ==
  IF ~IsTrue(a.ids) /\ ~a.all
  THEN "Specify " \o noun \o " or set delete_all=True."
  ELSE IF IsTrue(a.ids) /\ a.all
  THEN "Specify " \o noun \o " or delete_all=True, not both."
  ELSE ""

\* The selectors of managed_job_cancel that count as given.
specifiers(a) ==
  {s \in {"name", "job_ids", "cancel_all", "pool"} :
     CASE s = "name" -> a.name # PyNone
       [] s = "job_ids" -> a.ids # PyNone
       [] s = "cancel_all" -> a.all
       [] s = "pool" -> a.pool # PyNone}

\* managed_job_cancel refusing only the call without a selector.
one_specifier_at_least(a) ==
  IF Cardinality(specifiers(a)) = 0
  THEN "Specify exactly one of: name, job_ids, cancel_all=True, or pool."
  ELSE ""

one_specifier(a) ==
  IF Cardinality(specifiers(a)) # 1
  THEN "Specify exactly one of: name, job_ids, cancel_all=True, or pool."
  ELSE ""

CheckMessage(check, a) ==
  CASE check = "optimize_target" -> _parse_optimize_target(a.target)
    [] check = "update_mode" -> _parse_update_mode(a.mode)
    [] check = "task_yaml" -> load_dag_from_yaml(a.task_yaml)
    [] check = "task_yaml_if_given" -> load_dag_if_given(a.task_yaml)
    [] check = "wait_for" -> wait_for_given(a.wait_for)
    [] check = "job_ids_or_all" -> ids_or_all(a, "job_ids", "cancel_all")
    [] check = "service_names_or_all" -> names_or_all(a, "service_names")
    [] check = "pool_names_or_all" -> names_or_all(a, "pool_names")
    [] check = "one_specifier" -> one_specifier(a)

\* One row per tool: the SDK operation it calls, what it does with the
\* request id ("submit": returns it; "resolve": waits and serializes;
\* "unpack": waits and splits the result into the named fields; "direct":
\* the operation returns no request id; "get": waits on a given id), the
\* checks it makes before the SDK operation, in order, the keys of its
\* reply after "request_id" with the argument each one carries, and its
\* message.
Tool(op, style, checks, keys, message) ==
  [op |-> op, style |-> style, checks |-> checks, keys |-> keys,
   message |-> message]

ToolNames ==
  {"skypilot_cluster_launch", "skypilot_cluster_exec",
   "skypilot_cluster_stop", "skypilot_cluster_start",
   "skypilot_cluster_down", "skypilot_cluster_autostop",
   "skypilot_job_cancel", "skypilot_managed_job_launch",
   "skypilot_managed_job_cancel", "skypilot_serve_up",
   "skypilot_serve_update", "skypilot_serve_down", "skypilot_pool_apply",
   "skypilot_pool_down", "skypilot_optimize", "skypilot_validate",
   "skypilot_job_queue", "skypilot_managed_job_queue",
   "skypilot_status_kubernetes", "skypilot_get_request"}

ToolTable(tname) ==
  CASE tname = "skypilot_cluster_launch" ->
         Tool("sky.launch", "submit",
              << "optimize_target", "task_yaml", "wait_for" >>,
              << << "cluster_name", "subject" >> >>,
              "Launch request submitted. Use skypilot_get_request to check status.")
    [] tname = "skypilot_cluster_exec" ->
         Tool("sky.exec", "submit", << "task_yaml" >>,
              << << "cluster_name", "subject" >> >>,
              "Exec request submitted. Use skypilot_get_request to check status.")
    [] tname = "skypilot_cluster_stop" ->
         Tool("sky.stop", "submit", << >>,
              << << "cluster_name", "subject" >> >>,
              "Stop request submitted.")
    [] tname = "skypilot_cluster_start" ->
         Tool("sky.start", "submit", << "wait_for" >>,
              << << "cluster_name", "subject" >> >>,
              "Start request submitted.")
    [] tname = "skypilot_cluster_down" ->
         Tool("sky.down", "submit", << >>,
              << << "cluster_name", "subject" >> >>,
              "Down request submitted.")
    [] tname = "skypilot_cluster_autostop" ->
         Tool("sky.autostop", "submit", << "wait_for" >>,
              << << "cluster_name", "subject" >> >>,
              "Autostop set to ")
    [] tname = "skypilot_job_cancel" ->
         Tool("sky.cancel", "submit", << "job_ids_or_all" >>,
              << << "cluster_name", "subject" >> >>,
              "Cancel request submitted.")
    [] tname = "skypilot_managed_job_launch" ->
         Tool("sky.jobs.launch", "submit", << "task_yaml" >>,
              << << "name", "name" >>, << "pool", "pool" >> >>,
              "Managed job launch submitted. Use skypilot_get_request to check status.")
    [] tname = "skypilot_managed_job_cancel" ->
         Tool("sky.jobs.cancel", "submit", << "one_specifier" >>, << >>,
              "Managed job cancel request submitted.")
    [] tname = "skypilot_serve_up" ->
         Tool("sky.serve.up", "submit", << "task_yaml" >>,
              << << "service_name", "subject" >> >>,
              "Service launch submitted. Use skypilot_get_request to check status.")
    [] tname = "skypilot_serve_update" ->
         Tool("sky.serve.update", "submit", << "update_mode", "task_yaml" >>,
              << << "service_name", "subject" >> >>,
              "Service update submitted.")
    [] tname = "skypilot_serve_down" ->
         Tool("sky.serve.down", "submit", << "service_names_or_all" >>,
              << >>, "Service down request submitted.")
    [] tname = "skypilot_pool_apply" ->
         Tool("sky.jobs.pool_apply", "submit",
              << "update_mode", "task_yaml_if_given" >>,
              << << "pool_name", "subject" >> >>,
              "Pool apply request submitted.")
    [] tname = "skypilot_pool_down" ->
         Tool("sky.jobs.pool_down", "submit", << "pool_names_or_all" >>,
              << >>, "Pool down request submitted.")
    [] tname = "skypilot_optimize" ->
         Tool("sky.optimize", "resolve", << "optimize_target", "task_yaml" >>,
              << >>, "")
    [] tname = "skypilot_validate" ->
         Tool("sky.validate", "direct", << "task_yaml" >>, << >>,
              "Task validation passed.")
    [] tname = "skypilot_job_queue" ->
         Tool("sky.queue", "resolve", << >>, << >>, "")
    [] tname = "skypilot_managed_job_queue" ->
         Tool("sky.jobs.queue_v2", "unpack", << >>,
              << "jobs", "total_count", "status_counts", "filtered_count" >>,
              "")
    [] tname = "skypilot_status_kubernetes" ->
         Tool("sky.status_kubernetes", "unpack", << >>,
              << "clusters", "other_clusters", "managed_jobs", "context" >>,
              "")
    [] tname = "skypilot_get_request" ->
         Tool("", "get", << >>, << >>, "")

\* The message of the reply: autostop's names the idle minutes given.
Message(tname, a) ==
  IF tname = "skypilot_cluster_autostop"
  THEN ToolTable(tname).message \o Str(a.idle_minutes) \o " minutes."
  ELSE ToolTable(tname).message

\* json.dumps of a dict of scalars, given as its (key, value) pairs in order.
json_dumps(pairs) ==
  "{" \o JoinComma([i \in 1..Len(pairs) |->
                      "\"" \o pairs[i][1] \o "\": " \o JsonDumps(pairs[i][2], 0)])
      \o "}"

\* The reply of a submitting tool.
SubmitReply(tname, a, request_id) ==
  LET keys == ToolTable(tname).keys
  IN json_dumps(<< << "request_id", PyStr(Str(request_id)) >> >>
                \o [i \in 1..Len(keys) |-> << keys[i][1], a[keys[i][2]] >>]
                \o << << "message", PyStr(Message(tname, a)) >> >>)

\* The reply of skypilot_managed_job_queue and skypilot_status_kubernetes,
\* given the resolved result.
Unpack(tname, result) ==
  IF result.t \in {"list", "tuple"} /\ Len(result.xs) >= 4
  THEN LET keys == ToolTable(tname).keys
       IN safe_json_serialize(
            PyDict([i \in 1..4 |-> PyStr(keys[i])],
                   [i \in 1..4 |-> result.xs[i]]))
  ELSE safe_json_serialize(result)

\* Every tool with an SDK operation waiting on its request.
WaitsAlways(style) == style # "get"

\* The tools that call resolve_request on the request id their SDK
\* operation returns.
Waits(style) == style \in {"resolve", "unpack"}

\* The body of a tool: what it returns or raises and the calls it makes, in
\* order, given what the SDK operation (sub) and resolve_request (res) do.
ToolBody(tname, a, sub, res) ==
  LET row == ToolTable(tname)
      failing == {i \in 1..Len(row.checks) :
                    CheckMessage(row.checks[i], a) # ""}
  IN IF failing # {}
     THEN [out |-> Raise(ValueError(CheckMessage(row.checks[Min(failing)], a))),
           events |-> << >>]
     ELSE IF row.style = "get"
     THEN [out |-> GetRequestBody(res), events |-> << "resolve_request" >>]
     ELSE IF sub.kind = "raise"
     THEN [out |-> sub, events |-> << row.op >>]
     ELSE IF ~Waits(row.style) /\ row.style = "submit"
     THEN [out |-> Return(PyStr(SubmitReply(tname, a, sub.value))),
           events |-> << row.op >>]
     ELSE IF ~Waits(row.style)
     THEN [out |-> Return(PyStr(json_dumps(
                      << << "status", PyStr("valid") >>,
                         << "message", PyStr(Message(tname, a)) >> >>))),
           events |-> << row.op >>]
     ELSE IF res.kind = "raise"
     THEN [out |-> res, events |-> << row.op, "resolve_request" >>]
     ELSE IF row.style = "unpack"
     THEN [out |-> Return(PyStr(Unpack(tname, res.value))),
           events |-> << row.op, "resolve_request" >>]
     ELSE [out |-> Return(PyStr(safe_json_serialize(res.value))),
           events |-> << row.op, "resolve_request" >>]

\* skypilot_lifespan's except clause.
LifespanCatchesNothing(f) == FALSE

LifespanCatches(f) == IsInstance(f, "Exception")

CancelledError ==
  Failure("CancelledError", {"CancelledError", "BaseException"}, "")

\* What sky.api_info raises when the API server cannot be reached.
ApiInfoFailures ==
  SdkFailures
    \cup {Failure("ConnectionError", {"ConnectionError", "OSError", "Exception"},
                  "connection refused")}

\* What may be thrown into the lifespan at its yield when the server ends.
BodyFailures == {RuntimeError("server crashed"), CancelledError}

(***************************************************************************)
(* The arguments the tools are called with.                                *)
(***************************************************************************)

Yamls == {PyStr(""), PyStr(" \n"), PyStr("run: echo hi")}

\* The values each argument is drawn from.
Choices(tname, field) ==
  CASE field = "task_yaml" ->
         IF tname = "skypilot_pool_apply" THEN Yamls \cup {PyNone} ELSE Yamls
    [] field = "target" -> {PyStr("COST"), PyStr("time"), PyStr("bogus")}
    [] field = "mode" -> {PyStr("rolling"), PyStr("bad")}
    [] field = "wait_for" -> {PyNone, PyStr("jobs"), PyStr("bad")}
    [] field = "ids" -> {PyNone, PyList(<< >>), PyList(<< PyStr("x") >>)}
    [] field = "all" -> BOOLEAN
    [] field = "name" -> {PyNone, PyStr("n")}
    [] field = "pool" -> {PyNone, PyStr("p")}

\* The value of an argument the tool does not take.
Absent(field) ==
  CASE field = "all" -> FALSE
    [] field = "target" -> PyStr("COST")
    [] field = "mode" -> PyStr("rolling")
    [] OTHER -> PyNone

\* The arguments each tool takes, beside the name of what it acts on.
Takes(tname) ==
  CASE tname = "skypilot_cluster_launch" -> {"task_yaml", "target", "wait_for"}
    [] tname \in {"skypilot_cluster_exec", "skypilot_serve_up",
                 "skypilot_validate"} -> {"task_yaml"}
    [] tname \in {"skypilot_cluster_start", "skypilot_cluster_autostop"} ->
         {"wait_for"}
    [] tname \in {"skypilot_job_cancel", "skypilot_serve_down",
                 "skypilot_pool_down"} -> {"ids", "all"}
    [] tname = "skypilot_managed_job_launch" -> {"task_yaml", "name", "pool"}
    [] tname = "skypilot_managed_job_cancel" -> {"name", "ids", "all", "pool"}
    [] tname \in {"skypilot_serve_update", "skypilot_pool_apply"} ->
         {"task_yaml", "mode"}
    [] tname = "skypilot_optimize" -> {"task_yaml", "target"}
    [] OTHER -> {}

Dom(tname, field) ==
  IF field \in Takes(tname) THEN Choices(tname, field) ELSE {Absent(field)}

ToolArgs(tname) ==
  {[task_yaml |-> y, target |-> t, mode |-> m, wait_for |-> w, ids |-> i,
    all |-> al, name |-> n, pool |-> p, subject |-> PyStr("c1"),
    idle_minutes |-> PyInt(10), request_id |-> PyNone] :
     y \in Dom(tname, "task_yaml"), t \in Dom(tname, "target"),
     m \in Dom(tname, "mode"), w \in Dom(tname, "wait_for"),
     i \in Dom(tname, "ids"), al \in Dom(tname, "all"),
     n \in Dom(tname, "name"), p \in Dom(tname, "pool")}

JobRecord(n) == PyDict(<< PyStr("job_id") >>, << PyInt(n) >>)

\* What resolve_request returns for the two unpacking tools: the 4-tuple,
\* the same as a list, longer and shorter ones, and other shapes.
UnpackResults ==
  {PyTuple(<< PyList(<< JobRecord(1) >>), PyInt(1), PyDict(<< >>, << >>),
              PyInt(1) >>),
   PyList(<< PyList(<< JobRecord(1) >>), PyInt(1), PyDict(<< >>, << >>),
             PyInt(1) >>),
   PyTuple(<< PyList(<< >>), PyInt(0), PyDict(<< >>, << >>), PyInt(0),
              PyStr("extra") >>),
   PyList(<< JobRecord(1), JobRecord(2), JobRecord(3), JobRecord(4),
             JobRecord(5) >>),
   PyList(<< JobRecord(1), JobRecord(2), JobRecord(3) >>),
   PyTuple(<< PyList(<< >>), PyInt(0) >>),
   PyDict(<< PyStr("unexpected") >>, << PyStr("format") >>),
   PyNone}

IssuedIds == {HandleOf(i) : i \in 1..issued}

HasOp(tname) == ToolTable(tname).style # "get"

\* The outcomes of the SDK operation of a tool: the next request id (none for
\* sky.validate), or a failure.
SubOutcomes(tname) ==
  {IF ToolTable(tname).style = "direct" THEN Return(PyNone)
   ELSE Return(PyStr(HandleOf(issued + 1)))}
    \cup {Raise(f) : f \in SdkFailures}

\* The outcomes of resolve_request for a tool that waits.
ResOutcomes(tname) ==
  IF ToolTable(tname).style # "get" /\ ~Waits(ToolTable(tname).style)
  THEN {NoOutcome}
  ELSE {Return(v) : v \in (IF ToolTable(tname).style = "unpack"
                           THEN UnpackResults ELSE Values)}
         \cup {Raise(f) : f \in SdkFailures}

(***************************************************************************)
(* The server: its lifespan and the tname calls it serves.                  *)
(***************************************************************************)

lifespanVars == << lpc, yields, checked, ended >>
toolVars == << tcall, events, toolOut, issued, fetched >>

\* The server enters skypilot_lifespan: sky.api_info is called in a thread
\* and the generator yields its context, or the await is cancelled.
Startup(check) ==
  /\ lpc = "new"
  /\ checked' = check
  /\ IF check.kind = "raise" /\ ~LifespanCatches(check.exc)
     THEN lpc' = "raised" /\ yields' = yields
     ELSE lpc' = "serving" /\ yields' = yields + 1
  /\ UNCHANGED << ended, toolVars >>
  /\ UNCHANGED << resolverVars, translatorVars, captureVars, logVars,
                  serializerVars >>

\* The server body ends and the generator is resumed at its yield: normally,
\* or with the exception thrown in.  The first yield stands inside the try
\* block, the second inside the except clause.
BodyEnds(how) ==
  /\ lpc = "serving"
  /\ ended' = how
  /\ IF how.kind = "return"
     THEN lpc' = "finished" /\ yields' = yields
     ELSE IF checked.kind = "return" /\ LifespanCatches(how.exc)
     THEN lpc' = "yielded_again" /\ yields' = yields + 1
     ELSE lpc' = "raised" /\ yields' = yields
  /\ UNCHANGED << checked, toolVars >>
  /\ UNCHANGED << resolverVars, translatorVars, captureVars, logVars,
                  serializerVars >>

\* A client calls a tool; the body runs under handle_skypilot_error.
CallTool(tname, a, sub, res) ==
  /\ lpc = "serving"
  /\ tcall = NoCall
  /\ LET run == ToolBody(tname, a, sub, res)
         row == ToolTable(tname)
         called == row.op \in Range(run.events)
         waited == "resolve_request" \in Range(run.events)
     IN /\ tcall' = [tool |-> tname, args |-> a,
                     sub |-> IF called THEN sub ELSE NoOutcome,
                     res |-> IF waited THEN res ELSE NoOutcome]
        /\ events' = run.events
        /\ toolOut' = handle_skypilot_error(run.out)
        /\ issued' = IF called /\ sub.kind = "return" /\ row.style # "direct"
                     THEN issued + 1 ELSE issued
        /\ fetched' = IF waited /\ res.kind = "return"
                      THEN fetched \cup {IF row.style = "get"
                                         THEN a.request_id.s
                                         ELSE HandleOf(issued + 1)}
                      ELSE fetched
  /\ UNCHANGED lifespanVars
  /\ UNCHANGED << resolverVars, translatorVars, captureVars, logVars,
                  serializerVars >>

\* The call is over; the server waits for the next one.
ForgetCall ==
  /\ tcall # NoCall
  /\ tcall' = NoCall
  /\ events' = << >>
  /\ toolOut' = NoOutcome
  /\ UNCHANGED << issued, fetched, lifespanVars >>
  /\ UNCHANGED << resolverVars, translatorVars, captureVars, logVars,
                  serializerVars >>

NextTools ==
  \/ /\ lpc = "new"
     /\ \E check \in {Return(PyDict(<< >>, << >>)), Raise(CancelledError)}
                       \cup {Raise(f) : f \in ApiInfoFailures} :
          Startup(check)
  \/ /\ lpc = "serving"
     /\ \E how \in {Return(PyNone)} \cup {Raise(f) : f \in BodyFailures} :
          BodyEnds(how)
  \/ /\ lpc = "serving" /\ tcall = NoCall /\ issued < MaxRequests
     /\ \E tname \in {t \in ToolNames : HasOp(t)} :
          \E a \in ToolArgs(tname), sub \in SubOutcomes(tname),
             res \in ResOutcomes(tname) :
            CallTool(tname, a, sub, res)
  \/ /\ lpc = "serving" /\ tcall = NoCall
     /\ \E id \in IssuedIds :
          \E res \in ResOutcomes("skypilot_get_request") :
            CallTool("skypilot_get_request",
                     [CHOOSE a \in ToolArgs("skypilot_get_request") : TRUE
                        EXCEPT !.request_id = PyStr(id)],
                     NoOutcome, res)
  \/ ForgetCall

SpecTools == Init /\ [][NextTools]_vars

\* ------------------------------------------------------------------------
\* Request Resolver: properties
\* ------------------------------------------------------------------------

\* The TimeoutError resolve_request raises for call c, written out.
ExpectedTimeout(c) ==
  Raise(TimeoutError(
    "Request " \o handle[c] \o " did not complete within " \o ToString(timeout[c])
    \o "s. The request may still be running on the server. "
    \o "Use skypilot_api_status to check its status."))

\* C1: a call whose fetch has not completed when the timeout elapses raises
\* at that point: no call is still inside resolve_request after more than
\* its timeout has elapsed.
C1_NoHangPastTimeout ==
  \A c \in Calls : InCall(c) => elapsed[c] <= timeout[c]

\* C2: once resolve_request has returned or raised, the executor of the call
\* is shut down and its worker thread has ended, whatever the outcome; an
\* executor that no call in progress holds is never left open, and no
\* executor gets the work of more than one call.
C2_ExecutorTornDown ==
  /\ \A c \in Calls :
       pc[c] = "done" => exec[pool[c]] = "shutdown" /\ worker[pool[c]] = "exited"
  /\ \A e \in ExecIds :
       (exec[e] # "new" /\ ~(\E c \in Calls : InCall(c) /\ pool[c] = e))
         => exec[e] = "shutdown" /\ worker[e] = "exited"
  /\ \A e \in ExecIds : submits[e] <= 1

\* Two calls have ended, one by a timeout and one with the fetch's failure,
\* and both executors are torn down.
C2_Witness ==
  \E c1, c2 \in Calls :
    /\ pc[c1] = "done" /\ waitEnd[c1] = "timeout" /\ worker[pool[c1]] = "exited"
    /\ pc[c2] = "done" /\ waitEnd[c2] = "finished" /\ outcome[c2].kind = "raise"
    /\ worker[pool[c2]] = "exited" /\ pool[c1] # pool[c2]

\* C3: a skypilot_get_request call whose wait timed out (default timeout,
\* fetch not complete) gets the resolver's timeout error to the client
\* strictly before the tool timeout: the framework never ends such a call,
\* and the call is never still running at the tool timeout.
C3_TimeoutBeforeToolTimeout ==
  \A c \in Calls :
    (api[c] = "skypilot_get_request" /\ waitEnd[c] = "timeout")
      => /\ surfaced[c] # Terminated
         /\ InCall(c) => elapsed[c] < TOOL_TIMEOUT

\* C4: when the fetch raised a failure and the wait did not time out,
\* resolve_request raises that same failure.
C4_FetchFailureUnchanged ==
  \A c \in Calls :
    (pc[c] = "done" /\ waitEnd[c] = "finished" /\ futOut[c].kind = "raise")
      => outcome[c] = futOut[c]

\* C5: when the fetch returned value v before the timeout, resolve_request
\* returns v itself.
C5_SuccessUnchanged ==
  \A c \in Calls :
    (pc[c] = "done" /\ waitEnd[c] = "finished" /\ futOut[c].kind = "return")
      => outcome[c] = Return(futOut[c].value)

\* Both results of the tests have been returned: None and the cluster list.
C5_Witness ==
  \E c1, c2 \in Calls :
    /\ pc[c1] = "done" /\ futOut[c1] = Return(PyNone) /\ outcome[c1] = Return(PyNone)
    /\ pc[c2] = "done" /\ futOut[c2].kind = "return" /\ futOut[c2].value.t = "list"
    /\ outcome[c2] = futOut[c2]

\* C6: on a timeout of the wait, future.cancel() has been called and the
\* failure is the TimeoutError naming the request id, the timeout and
\* skypilot_api_status; handle_skypilot_error turns it into the ToolError
\* "Timeout: " + message, and that is what resolve_request raises and what a
\* tool call surfaces (unless the framework ended the call first).
C6_TimeoutFailure ==
  \A c \in Calls :
    waitEnd[c] = "timeout" =>
      /\ cancelTry[c]
      /\ pending[c] = ExpectedTimeout(c)
      /\ handle_skypilot_error(pending[c])
           = Raise(ToolError("Timeout: " \o ExpectedTimeout(c).exc.msg))
      /\ pc[c] = "done" =>
           /\ outcome[c] = ExpectedTimeout(c)
           /\ (api[c] = "skypilot_get_request" /\ surfaced[c] # Terminated)
                => surfaced[c] = Raise(ToolError("Timeout: " \o ExpectedTimeout(c).exc.msg))

\* A tool call has surfaced the timeout of its wait, and a direct call whose
\* Future was cancelled in time has raised it.
C6_Witness ==
  \E c1, c2 \in Calls :
    /\ pc[c1] = "done" /\ api[c1] = "skypilot_get_request" /\ waitEnd[c1] = "timeout"
    /\ surfaced[c1].kind = "raise" /\ IsInstance(surfaced[c1].exc, "ToolError")
    /\ pc[c2] = "done" /\ api[c2] = "resolve_request" /\ waitEnd[c2] = "timeout"
    /\ outcome[c2] = ExpectedTimeout(c2)

\* C7: every call has an executor of its own, whose worker runs only that
\* call's fetch; the fetch of a call never waits behind another call's, and
\* what a call returns or raises is decided by its own fetch and timeout.
C7_CallsIndependent ==
  /\ \A c1, c2 \in Calls : (c1 # c2 /\ pool[c1] # 0) => pool[c1] # pool[c2]
  /\ \A e \in ExecIds :
       /\ running[e] # 0 => pool[running[e]] = e
       /\ \A i \in 1 .. Len(queue[e]) : pool[queue[e][i]] = e
  /\ \A c \in Calls :
       (pc[c] = "result" /\ fut[c] = "PENDING")
         => worker[pool[c]] = "idle" /\ Head(queue[pool[c]]) = c
  /\ \A c \in Calls :
       pc[c] = "done" =>
         outcome[c] = IF waitEnd[c] = "timeout" THEN ExpectedTimeout(c)
                      ELSE BodyOutcome(handle[c], timeout[c], futOut[c])

\* One call is held up by a fetch that outlived its timeout while another
\* call, with a fetch of its own, has returned a value.
C7_Witness ==
  \E c1, c2 \in Calls :
    /\ pc[c1] = "exit" /\ waitEnd[c1] = "timeout" /\ worker[pool[c1]] = "busy"
    /\ elapsed[c1] > timeout[c1]
    /\ pc[c2] = "done" /\ outcome[c2].kind = "return"

\* ------------------------------------------------------------------------
\* Error Translator: properties
\* ------------------------------------------------------------------------

\* C8 as stated: whatever failure the wrapped callable raises, the wrapper
\* raises a ToolError; a call that does not fail returns its result.
C8_EveryFailureTranslated ==
  /\ thrown.kind = "return" => once = thrown
  /\ thrown.kind = "raise" =>
       once.kind = "raise" /\ IsInstance(once.exc, "ToolError")

\* C8 as amended: every failure that is an Exception leaves the wrapper as a
\* ToolError, and a call that does not fail returns its result; a failure
\* that is no Exception (SystemExit, KeyboardInterrupt) passes unchanged.
C8_EveryExceptionTranslated ==
  /\ thrown.kind = "return" => once = thrown
  /\ (thrown.kind = "raise" /\ IsInstance(thrown.exc, "Exception")) =>
       once.kind = "raise" /\ IsInstance(once.exc, "ToolError")
  /\ (thrown.kind = "raise" /\ ~IsInstance(thrown.exc, "Exception")) =>
       once = thrown

\* A RuntimeError, which no clause names, has been translated by the
\* catch-all.
C8_Witness ==
  /\ thrown = Raise(Failure("RuntimeError", {"Exception"}, "no A100s"))
  /\ once = Raise(ToolError("RuntimeError: no A100s"))

\* C9: a ToolError raised by the wrapped callable is re-raised as it is, its
\* message unchanged; wrapping twice surfaces what wrapping once surfaces.
C9_TranslationIdempotent ==
  /\ (thrown.kind = "raise" /\ IsInstance(thrown.exc, "ToolError")) => once = thrown
  /\ twice = once

\* A ToolError raised by the callable has passed through, wrapped once and
\* wrapped twice.
C9_Witness ==
  /\ thrown = Raise(ToolError("bad input"))
  /\ once = Raise(ToolError("bad input"))
  /\ twice = once

\* The translation table of spec section 4.3, in its order: the raised kind
\* of each row (by the name the wrapped SDK gives it) and its message prefix.
SpecTable ==
  << <<"ApiServerAuthenticationError", "Authentication required: ">>,
     <<"PermissionDeniedError", "Permission denied: ">>,
     <<"UserRequestRejectedByPolicy", "Request rejected by admin policy: ">>,
     <<"ApiServerConnectionError", "API server unreachable: ">>,
     <<"ServerTemporarilyUnavailableError",
       "API server temporarily unavailable (retry later): ">>,
     <<"APIVersionMismatchError", "API version mismatch: ">>,
     <<"APINotSupportedError", "API not supported by server: ">>,
     <<"ClusterDoesNotExist", "Cluster not found: ">>,
     <<"ClusterNotUpError", "Cluster not up: ">>,
     <<"ClusterSetUpError", "Cluster setup failed: ">>,
     <<"InvalidClusterNameError", "Invalid cluster name: ">>,
     <<"ResourcesUnavailableError", "Resources unavailable: ">>,
     <<"CloudError", "Cloud provider error: ">>,
     <<"InvalidCloudConfigs", "Invalid cloud configuration: ">>,
     <<"InvalidCloudCredentials", "Invalid cloud credentials: ">>,
     <<"NoCloudAccessError", "No cloud access: ">>,
     <<"NetworkError", "Network error: ">>,
     <<"StorageError", "Storage error: ">>,
     <<"VolumeNotFoundError", "Volume not found: ">>,
     <<"VolumeNotReadyError", "Volume not ready: ">>,
     <<"PortDoesNotExistError", "Port not found: ">>,
     <<"CommandError", "Command error: ">>,
     <<"NotSupportedError", "Not supported: ">>,
     <<"RequestCancelled", "Request cancelled: ">>,
     <<"ValueError", "Invalid input: ">>,
     <<"TimeoutError", "Timeout: ">> >>

\* The rows of the spec's table that failure f matches.
SpecRows(f) == {i \in 1 .. Len(SpecTable) : IsInstance(f, SpecTable[i][1])}

\* C10: a failure (not a ToolError) matching rows of the table is translated
\* by the first row it matches in the order of the table, never by the
\* catch-all; the catch-all translates an Exception matching no row; and the
\* except clauses of the code name the kinds of the table in its order.
C10_FirstRowWins ==
  /\ Len(HandlerTable) = Len(SpecTable) + 2
  /\ \A i \in 1 .. Len(SpecTable) : HandlerTable[i + 1].kind = SpecTable[i][1]
  /\ (thrown.kind = "raise" /\ ~IsInstance(thrown.exc, "ToolError")) =>
       LET f == thrown.exc
           rows == SpecRows(f)
       IN /\ rows # {} =>
               /\ once.kind = "raise"
               /\ once.exc.msg
                    = SpecTable[Min(rows)][2] \o f.msg \o HandlerTable[Min(rows) + 1].suffix
               /\ once.exc.msg # f.cls \o ": " \o f.msg
          /\ (rows = {} /\ IsInstance(f, "Exception")) =>
               once = Raise(ToolError(f.cls \o ": " \o f.msg))

\* A cluster-not-found failure that is also a ValueError has been translated
\* by the earlier row, "Cluster not found".
C10_Witness ==
  /\ thrown.kind = "raise"
  /\ thrown.exc.bases = {"ClusterDoesNotExist", "ValueError", "Exception"}
  /\ once = Raise(ToolError("Cluster not found: " \o thrown.exc.msg))

\* The remediation hint the "authentication required" row of the table adds
\* after the original message.
AuthHint == ". Use skypilot_api_login to authenticate."

C11_WitnessValueError ==
  /\ thrown = Raise(Failure("ValueError", {"ValueError", "Exception"}, "bad input"))
  /\ once = Raise(ToolError("Invalid input: bad input"))

\* ------------------------------------------------------------------------
\* Log capture by redirection: properties
\* ------------------------------------------------------------------------

\* C12: under every interleaving of the tool calls at most one call is in a
\* redirection section; that call, and no other, holds
\* _STDOUT_REDIRECT_LOCK; sys.stdout and sys.stderr point at no buffer but
\* that of the call holding the lock; and no redirection is entered while
\* another is in force (the target a call keeps on entry is the process
\* stream, never the buffer of another call).
C12_RedirectionsExclusive ==
  /\ Cardinality({t \in ToolThreads : InSection(t)}) <= 1
  /\ \A t \in ToolThreads : InSection(t) <=> _STDOUT_REDIRECT_LOCK = t
  /\ sys_stdout # 0 => _STDOUT_REDIRECT_LOCK = sys_stdout
  /\ sys_stderr # 0 => _STDOUT_REDIRECT_LOCK = sys_stderr
  /\ \A t \in ToolThreads :
       /\ old_out[t] \in {<< >>, <<0>>}
       /\ old_err[t] \in {<< >>, <<0>>}

\* One call is in its SDK call with both streams pointed at its buffer while
\* a call of the other redirecting tool waits for the lock.
C12_Witness ==
  \E t1, t2 \in ToolThreads :
    /\ cpc[t1] = "sdk" /\ sys_stdout = t1 /\ sys_stderr = t1
    /\ cpc[t2] = "lock" /\ tool[t2] # tool[t1]

\* The state part of C13: a call that is not in a redirection section holds
\* neither the lock nor a stream, and keeps no target; when no call is in a
\* section the lock is free and both streams are the process streams.
C13_Restored ==
  /\ \A t \in ToolThreads :
       ~InSection(t) =>
         /\ _STDOUT_REDIRECT_LOCK # t
         /\ sys_stdout # t /\ sys_stderr # t
         /\ old_out[t] = << >> /\ old_err[t] = << >>
  /\ (\A t \in ToolThreads : ~InSection(t)) =>
       _STDOUT_REDIRECT_LOCK = 0 /\ sys_stdout = 0 /\ sys_stderr = 0

RECURSIVE OwnText(_, _)
OwnText(t, n) == IF n = 0 THEN "" ELSE Line(t) \o OwnText(t, n - 1)

\* C14: the buffer of a capture has a single writer: every line in it was
\* written by the SDK call of the capture itself, never by another tool call
\* running at the same time, and the text a capture returns is exactly what
\* its own SDK call wrote.
C14_SingleWriter ==
  /\ \A t \in ToolThreads : \A i \in 1 .. Len(buf[t]) : buf[t][i] = t
  /\ \A t \in ToolThreads :
       (cpc[t] = "done" /\ tool[t] \in RedirectTools /\ cresult[t].kind = "return")
         => cresult[t].value = PyStr(OwnText(t, wrote[t]))

\* ------------------------------------------------------------------------
\* Log capture adapters: properties
\* ------------------------------------------------------------------------

\* C15 as stated: whichever the adapter, tail=0 never reaches the SDK call as
\* the number 0, and a positive tail reaches it unchanged.
C15_ZeroNeverPassed ==
  adapter # "none" =>
    /\ args.tail = 0 => sdkTail # PyInt(0)
    /\ args.tail > 0 => sdkTail = PyInt(args.tail)

\* The adapters that convert tail: managed job, service and pool logs.
ConvertingAdapters ==
  {"sky.jobs.tail_logs", "sky.serve.tail_logs", "sky.jobs.pool_tail_logs"}

\* C15 as amended: the managed job, service and pool adapters pass tail=0 to
\* the SDK call as None, never as the number 0; the cluster job, provision
\* and autostop adapters pass tail as given, 0 included; and every adapter
\* passes a positive tail unchanged.
C15_ZeroToNoneWhereConverted ==
  adapter # "none" =>
    /\ (adapter \in ConvertingAdapters /\ args.tail = 0) => sdkTail = PyNone
    /\ adapter \notin ConvertingAdapters => sdkTail = PyInt(args.tail)
    /\ args.tail > 0 => sdkTail = PyInt(args.tail)

\* The managed job adapter, called with tail=0, has given the SDK call None,
\* and the log text has come back.
C15_Witness ==
  /\ adapter = "sky.jobs.tail_logs" /\ args.tail = 0 /\ sdkTail = PyNone
  /\ captured = Return(PyStr("log line\n"))

\* Text sub occurs in text s.
Contains(s, sub) ==
  \E i \in 1 .. Len(s) - Len(sub) + 1 : SubSeq(s, i, i + Len(sub) - 1) = sub

\* C16: whichever the adapter, when its SDK tail call returned a non-zero
\* exit code the tool raises, with a message naming the target (its name,
\* or the job id of a managed job given by id) and the exit code; the
\* captured text is not returned.
C16_NonZeroExitRaises ==
  (adapter # "none" /\ IsTrue(sdkRet.ret)) =>
    /\ captured.kind = "raise"
    /\ Contains(captured.exc.msg,
                IF IsTrue(args.name) THEN Str(args.name) ELSE Str(args.job_id))
    /\ Contains(captured.exc.msg, "exit code " \o Str(sdkRet.ret))

\* ------------------------------------------------------------------------
\* Serializer: properties
\* ------------------------------------------------------------------------

\* A Canonical Value: null, a boolean, a number, a string (an instance of
\* these types), a list of Canonical Values, or a map from strings to
\* Canonical Values.
RECURSIVE IsCanonical(_)
IsCanonical(v) ==
  \/ Natures(v) \cap PrimitiveTags # {}
  \/ v.t = "list" /\ \A i \in 1 .. Len(v.xs) : IsCanonical(v.xs[i])
  \/ /\ v.t = "dict"
     /\ \A i \in 1 .. Len(v.ks) : v.ks[i].t = "str"
     /\ \A i \in 1 .. Len(v.vs) : IsCanonical(v.vs[i])

\* C17: whatever object built from maps, sequences, sets, enum members,
\* bytes, paths and records _make_serializable is given, what it returns is
\* a Canonical Value at every nesting depth.
C17_TotalAndCanonical == obj # Unset => IsCanonical(made)

\* C18: two runs of _make_serializable and of safe_json_serialize on equal
\* objects give equal results, sets of elements that cannot be ordered
\* included.
C18_Deterministic ==
  obj # Unset => made = twinMade /\ dumped = twinDumped

\* A list holds exactly the elements of a set: as many, and each of them.
PermutationOf(out, xs) ==
  /\ Len(out) = Len(xs)
  /\ Elements(out) = Elements(xs)

\* A list is in strictly ascending order.
Ascending(out) ==
  \A i, j \in 1 .. Len(out) :
    i < j => Orderable(out[i], out[j]) /\ Less(out[i], out[j])

MutuallyOrderable(xs) ==
  \A i, j \in 1 .. Len(xs) : i # j => Orderable(xs[i], xs[j])

\* C19: for a set of elements that can be ordered, _make_serializable
\* returns the list of its elements in ascending order; for a set of
\* elements that cannot, a list holding exactly its elements.
C19_SortedOrPermutation ==
  obj # Unset /\ obj.t \in {"set", "frozenset"} =>
    /\ made.t = "list"
    /\ PermutationOf(made.xs, obj.xs)
    /\ MutuallyOrderable(obj.xs) => Ascending(made.xs)

\* The set {3, 1, 2}, iterated in an order that is not ascending, came out
\* as [1, 2, 3], and a set of a number and a string came out as a list.
C19_Witness ==
  /\ obj = PySet(<< PyInt(3), PyInt(1), PyInt(2) >>)
  /\ made = PyList(<< PyInt(1), PyInt(2), PyInt(3) >>)

C19_WitnessMixed ==
  /\ obj # Unset
  /\ obj.t = "set"
  /\ Elements(obj.xs) = {PyInt(1), PyStr("a")}
  /\ made.t = "list"

\* The priority order of the rules: 1 primitive, 2 model-dump record,
\* 3 legacy dict+fields record, 4 plain structured record, 5 enumerated
\* value, 6 set, 7 mapping, 8 list/tuple, 9 bytes, 10 path, 11 fallback.
PriorityOrder ==
  << "primitive", "model_dump", "dict_fields", "dataclass", "enum", "set",
     "dict", "list", "bytes", "path", "fallback" >>

\* The numbers of the rules an object satisfies.
RulesSatisfied(o) ==
  {i \in 1 .. Len(PriorityOrder) : Satisfies(o, PriorityOrder[i])}

\* What each rule makes of an object of several natures, taken as the
\* nature the rule is about: itself, the exported map, the map of the
\* legacy form, the map of the fields, the value of the member, the sorted
\* elements, the map with its key as a string, the items as a list, the
\* decoded text, the path as a string.
ResultByRule(o) ==
  << o,
     PyDict(<< PyStr("via") >>, << PyStr("model_dump") >>),
     PyDict(<< PyStr("via") >>, << PyStr("dict") >>),
     PyDict(<< PyStr("via") >>, << PyStr("fields") >>),
     PyStr("value"),
     PyList(<< PyInt(1), PyInt(2) >>),
     PyDict(<< PyStr("1") >>, << PyNone >>),
     PyList(<< PyInt(7) >>),
     PyStr("hi"),
     PyStr("/tmp/test") >>

\* C20: the tests of the serializer come in the priority order of the
\* rules, and for an object that satisfies several rules the result is that
\* of the lowest-numbered rule it satisfies.
C20_LowestRuleWins ==
  /\ SerializerRules = PriorityOrder
  /\ obj # Unset =>
       made = ApplyRule(PriorityOrder[Min(RulesSatisfied(obj))], obj)
  /\ (obj # Unset /\ obj.t = "multi") =>
       made = ResultByRule(obj)[Min(RulesSatisfied(obj))]

\* An Enum member that is a dataclass (rules 4 and 5) came out as the map of
\* its fields, not as its value.
C20_Witness ==
  /\ obj # Unset
  /\ obj.t = "multi"
  /\ {4, 5} \subseteq RulesSatisfied(obj)
  /\ Min(RulesSatisfied(obj)) = 4
  /\ made = PyDict(<< PyStr("via") >>, << PyStr("fields") >>)
  /\ made # ApplyRule("enum", obj)

\* The bytes of a text of printable ASCII characters.
Encode(str) == [i \in 1 .. Len(str) |-> Ord(SubSeq(str, i, i))]

\* A text is base64: groups of four characters of the alphabet, the last
\* group ending in at most two "=".
IsBase64(str) ==
  /\ Len(str) % 4 = 0
  /\ \A i \in 1 .. Len(str) :
       \/ \E n \in 1 .. Len(Base64Alphabet) :
            SubSeq(str, i, i) = SubSeq(Base64Alphabet, n, n)
       \/ /\ SubSeq(str, i, i) = "="
          /\ i >= Len(str) - 1
          /\ i < Len(str) => SubSeq(str, Len(str), Len(str)) = "="

\* The number a character of the alphabet stands for ("=" stands for 0).
SextetOf(c) ==
  IF c = "=" THEN 0
  ELSE (CHOOSE n \in 1 .. Len(Base64Alphabet) : SubSeq(Base64Alphabet, n, n) = c) - 1

\* base64.b64decode of a base64 text.
RECURSIVE b64decode(_)
b64decode(str) ==
  IF Len(str) = 0 THEN << >>
  ELSE LET c(k) == SubSeq(str, k, k)
           w == SextetOf(c(1)) * 262144 + SextetOf(c(2)) * 4096
                + SextetOf(c(3)) * 64 + SextetOf(c(4))
           group == IF c(3) = "=" THEN << w \div 65536 >>
                    ELSE IF c(4) = "=" THEN << w \div 65536, (w \div 256) % 256 >>
                    ELSE << w \div 65536, (w \div 256) % 256, w % 256 >>
       IN  group \o b64decode(SubSeq(str, 5, Len(str)))

\* C21: bytes that are UTF-8 text come out as that text (here: bytes that
\* are all ASCII; every other sequence of the bytes given is not UTF-8), and
\* bytes that are not UTF-8 come out as an ASCII base64 text that decodes to
\* exactly the bytes.
C21_BytesRoundTrip ==
  (obj # Unset /\ obj.t = "bytes") =>
    /\ made.t = "str"
    /\ IF \A i \in 1 .. Len(obj.bs) : obj.bs[i] < 128
       THEN Encode(made.s) = obj.bs
       ELSE IsBase64(made.s) /\ b64decode(made.s) = obj.bs

\* b"hi" came out as "hi".
C21_Witness ==
  /\ obj = PyBytes(<< 104, 105 >>)
  /\ made = PyStr("hi")

\* b"\xff\xfe" came out as the base64 text "//4=".
C21_WitnessBase64 ==
  /\ obj = PyBytes(<< 255, 254 >>)
  /\ made = PyStr("//4=")

\* C30: the result of _make_serializable on a dict has as many entries as
\* the dict, each key k of the dict appearing as str(k) with the serialized
\* form of its own value.
C30_NoEntryLost ==
  (obj # Unset /\ obj.t = "dict") =>
    /\ made.t = "dict"
    /\ Len(made.ks) = Len(obj.ks)
    /\ \A i \in 1 .. Len(obj.ks) :
         \E j \in 1 .. Len(made.ks) :
           /\ made.ks[j] = PyStr(Str(obj.ks[i]))
           /\ made.vs[j] = _make_serializable(obj.vs[i])

\* C28: resolve_request raises its "did not complete within" failure only
\* when the wait timed out: a call whose fetch finished within the timeout
\* never ends with that message, whatever the fetch raised.
C28_TimeoutOnlyWhenTimedOut ==
  \A c \in Calls :
    (outcome[c].kind = "raise"
     /\ Contains(outcome[c].exc.msg, "did not complete within"))
      => waitEnd[c] = "timeout"

(***************************************************************************)
(* Tool calls                                                              *)
(***************************************************************************)

StartsWith(s, prefix) ==
  Len(s) >= Len(prefix) /\ SubSeq(s, 1, Len(prefix)) = prefix

\* The call failed with a ToolError whose message is "Invalid input: " and
\* the given text.
InvalidInput(out, msg) ==
  /\ out.kind = "raise"
  /\ out.exc.cls = "ToolError"
  /\ out.exc.msg = "Invalid input: " \o msg

\* The SDK operation of the tool called was submitted exactly once.
SubmittedOnce ==
  Len(SelectSeq(events, LAMBDA e : e = ToolTable(tcall.tool).op)) = 1

\* No SDK operation was submitted and nothing was waited on.
NothingSubmitted == events = << >>

\* A list naming at least one id or name was given.
ListGiven(v) == v.t = "list" /\ Len(v.xs) > 0

ExclusiveTools ==
  {"skypilot_job_cancel", "skypilot_serve_down", "skypilot_pool_down"}

\* C23: skypilot_job_cancel, skypilot_serve_down and skypilot_pool_down,
\* called with exactly one of a list of ids or names and the all-flag,
\* submit the SDK operation exactly once; called with both or with neither
\* they fail with a ToolError "Invalid input: ..." and submit nothing.
C23_ExactlyOneOfListAndAll ==
  tcall.tool \in ExclusiveTools =>
    IF ListGiven(tcall.args.ids) # tcall.args.all
    THEN SubmittedOnce
    ELSE /\ toolOut.kind = "raise"
         /\ toolOut.exc.cls = "ToolError"
         /\ StartsWith(toolOut.exc.msg, "Invalid input: Specify ")
         /\ NothingSubmitted

\* Each of the three tools has been called with both, and with neither.
C23_Witness ==
  /\ tcall.tool = "skypilot_serve_down"
  /\ ListGiven(tcall.args.ids) /\ tcall.args.all
  /\ toolOut.kind = "raise"

C23_WitnessNeither ==
  /\ tcall.tool = "skypilot_job_cancel"
  /\ tcall.args.ids = PyList(<< >>) /\ ~tcall.args.all
  /\ toolOut.kind = "raise"

C23_WitnessSubmitted ==
  /\ tcall.tool = "skypilot_pool_down"
  /\ tcall.args.ids = PyList(<< >>) /\ tcall.args.all
  /\ toolOut.kind = "return"
  /\ issued = 1

\* 1 for TRUE, 0 for FALSE.
Bit(b) == IF b THEN 1 ELSE 0

\* The number of selectors a call of skypilot_managed_job_cancel was given:
\* name, job_ids and pool count when they are not None, cancel_all when it
\* is True.
SelectorsGiven(a) ==
  Bit(a.name # PyNone) + Bit(a.ids # PyNone) + Bit(a.all)
    + Bit(a.pool # PyNone)

\* C24: skypilot_managed_job_cancel submits sky.jobs.cancel, once, exactly
\* when one of the four selectors is given; with none or more than one it
\* fails with the ToolError "Specify exactly one of ..." and submits
\* nothing.
C24_ExactlyOneSelector ==
  tcall.tool = "skypilot_managed_job_cancel" =>
    IF SelectorsGiven(tcall.args) = 1
    THEN events = << "sky.jobs.cancel" >>
    ELSE /\ InvalidInput(toolOut,
              "Specify exactly one of: name, job_ids, cancel_all=True, or pool.")
         /\ NothingSubmitted

\* The tool has been called with two selectors, with none, and with one.
C24_Witness ==
  /\ tcall.tool = "skypilot_managed_job_cancel"
  /\ SelectorsGiven(tcall.args) = 2
  /\ toolOut.kind = "raise"

C24_WitnessNone ==
  /\ tcall.tool = "skypilot_managed_job_cancel"
  /\ SelectorsGiven(tcall.args) = 0
  /\ toolOut.kind = "raise"

C24_WitnessOne ==
  /\ tcall.tool = "skypilot_managed_job_cancel"
  /\ SelectorsGiven(tcall.args) = 1
  /\ tcall.args.pool # PyNone
  /\ toolOut.kind = "return"

YamlTools ==
  {"skypilot_cluster_launch", "skypilot_cluster_exec",
   "skypilot_managed_job_launch", "skypilot_serve_up",
   "skypilot_serve_update", "skypilot_pool_apply", "skypilot_optimize",
   "skypilot_validate"}

\* The YAML given is a string that is empty or holds only whitespace.
BlankYaml(v) ==
  v.t = "str" /\ \A i \in 1..Len(v.s) : SubSeq(v.s, i, i) \in Whitespace

\* C25: every tool that takes a task_yaml, given an empty or whitespace-only
\* string, fails with the ToolError "Invalid input: task_yaml must be a
\* non-empty YAML string." and submits no SDK operation.
C25_BlankYamlRefused ==
  (tcall.tool \in YamlTools /\ BlankYaml(tcall.args.task_yaml)) =>
    /\ InvalidInput(toolOut, "task_yaml must be a non-empty YAML string.")
    /\ NothingSubmitted

\* The same for the tools other than skypilot_pool_apply, called with
\* arguments that are otherwise valid.
C25_RefusedWhereLoaded ==
  (/\ tcall.tool \in YamlTools \ {"skypilot_pool_apply"}
   /\ BlankYaml(tcall.args.task_yaml)
   /\ upper(tcall.args.target.s) \in Range(OptimizeTarget)
   /\ tcall.args.mode.s \in Range(UpdateMode)) =>
    /\ InvalidInput(toolOut, "task_yaml must be a non-empty YAML string.")
    /\ NothingSubmitted

\* A blank YAML never reaches the SDK, except the empty string given to
\* skypilot_pool_apply.
C25_OnlyPoolApplySubmits ==
  (/\ tcall.tool \in YamlTools
   /\ BlankYaml(tcall.args.task_yaml)
   /\ ~NothingSubmitted) =>
    tcall.tool = "skypilot_pool_apply" /\ tcall.args.task_yaml = PyStr("")

SubmitTools == {t \in ToolNames : ToolTable(t).style = "submit"}

\* The request id the SDK handed the tool call in progress.
Submitted == tcall.sub.value.s

C22_WitnessFetched ==
  /\ tcall.tool = "skypilot_get_request"
  /\ tcall.args.request_id = PyStr("req-001")
  /\ fetched = {"req-001"}
  /\ issued = 2

UnpackTools == {"skypilot_managed_job_queue", "skypilot_status_kubernetes"}

\* The resolved result has exactly four positions.
FourTuple(v) == v.t \in {"tuple", "list"} /\ Len(v.xs) = 4

\* The JSON object with the four named fields of the tool, taken from
\* positions 0..3 of the result.
FourFields(tname, v) ==
  LET keys == ToolTable(tname).keys
  IN safe_json_serialize(
       PyDict(<< PyStr(keys[1]), PyStr(keys[2]), PyStr(keys[3]),
                 PyStr(keys[4]) >>,
              << v.xs[1], v.xs[2], v.xs[3], v.xs[4] >>))

\* C26: skypilot_managed_job_queue and skypilot_status_kubernetes return a
\* resolved 4-tuple as the JSON object of the four named fields, and a
\* result of any other shape serialized as it is, not split into fields.
C26_SplitOnlyFourTuple ==
  (tcall.tool \in UnpackTools /\ tcall.res.kind = "return") =>
    toolOut = Return(PyStr(
      IF FourTuple(tcall.res.value)
      THEN FourFields(tcall.tool, tcall.res.value)
      ELSE safe_json_serialize(tcall.res.value)))

\* The same with every list or tuple of four or more positions split.
C26_SplitFourOrMore ==
  (tcall.tool \in UnpackTools /\ tcall.res.kind = "return") =>
    toolOut = Return(PyStr(
      IF tcall.res.value.t \in {"tuple", "list"}
         /\ Len(tcall.res.value.xs) >= 4
      THEN FourFields(tcall.tool, tcall.res.value)
      ELSE safe_json_serialize(tcall.res.value)))

(***************************************************************************)
(* The lifespan                                                            *)
(***************************************************************************)

\* C27: when sky.api_info raises at startup because the API server cannot
\* be reached, skypilot_lifespan still yields its context and the server
\* starts; the failure does not leave the lifespan.
C27_StartsWithoutApi ==
  (checked.kind = "raise" /\ checked.exc \in ApiInfoFailures) =>
    /\ yields >= 1
    /\ lpc = "raised" => ended.kind = "raise"

\* The startup check failed and the server is serving, with a tool called.
C27_Witness ==
  /\ checked.kind = "raise"
  /\ checked.exc \in ApiInfoFailures
  /\ lpc = "serving"
  /\ yields = 1
  /\ tcall.tool = "skypilot_cluster_stop"

\* C29: skypilot_lifespan yields exactly once on every path: whether the
\* startup check succeeds or fails, and whether the server body finishes
\* normally or an exception is thrown in at the yield, the generator never
\* reaches a second yield.
C29_YieldsOnce ==
  /\ yields <= 1
  /\ lpc \in {"serving", "finished"} => yields = 1

\* A second yield is reached only when the startup check succeeded and an
\* Exception was thrown in at the first yield.
C29_SecondYieldOnlyAfterThrow ==
  yields > 1 =>
    /\ yields = 2
    /\ checked.kind = "return"
    /\ ended.kind = "raise"
    /\ IsInstance(ended.exc, "Exception")

====
